---- MODULE Spec2Model ----
(***************************************************************************)
(* CoinTaxman, src/taxman.py: the cost-basis accounting engine.            *)
(*                                                                         *)
(* The model follows Taxman.evaluate_taxation: the book's operations are   *)
(* sorted by time, evaluated one by one by _evaluate_taxation_GERMANY, and *)
(* the balances left at the deadline are liquidated as unrealized sells.   *)
(*                                                                         *)
(* balance_queue, transaction, price_data, misc and config are imported by *)
(* taxman.py; the definitions that stand for them follow the               *)
(* specification (sections 3, 4.1, 4.2, 4.3 and 6).                        *)
(*                                                                         *)
(* decimal.Decimal values are computed as Python computes them: in the     *)
(* default context, rounded to 28 significant digits.  taxman.py fixes its *)
(* deadline when it is imported, so the time of the run is an input.       *)
(***************************************************************************)
EXTENDS Integers, Sequences, FiniteSets, TLC

VARIABLES
    book,                  \* self.book.operations, the input (never changed)
    PRINCIPLE,             \* config.PRINCIPLE: "FIFO" or "LIFO"
    MULTI_DEPOT,           \* config.MULTI_DEPOT
    noPrice,               \* <<platform, utc_time>> points without a price
    now,                   \* datetime.now() when taxman.py was imported
    pc,                    \* position in evaluate_taxation
    error,                 \* the exception that ended the run, or "none"
    operations,            \* the sorted operations (indices into book)
    pos,                   \* index of the next operation of the loop
    balances,              \* self._balances, in insertion order
    withdrawn_coins,       \* Withdrawal.withdrawn_coins, per book index
    tax_report_entries,    \* self.tax_report_entries
    portfolio_at_deadline, \* self.portfolio_at_deadline
    summary,               \* the totals print_evaluation reports
    last                   \* what the last step did (removals, evaluations)

vars == <<book, PRINCIPLE, MULTI_DEPOT, noPrice, now, pc, error, operations,
          pos, balances, withdrawn_coins, tax_report_entries,
          portfolio_at_deadline, summary, last>>

(***************************************************************************)
(* decimal.Decimal (taxman.py, line 20).  taxman.py never changes the      *)
(* arithmetic context, so every sum, difference, product and quotient is   *)
(* the exact result rounded to 28 significant digits, ties to the even     *)
(* digit (decimal.DefaultContext: prec = 28, ROUND_HALF_EVEN).             *)
(*                                                                         *)
(* A decimal is the record of Decimal.as_tuple(): sign (0 or 1), digits    *)
(* (most significant first) and exponent, in the normal form that has no   *)
(* trailing zero digit, so that two decimals are equal exactly when        *)
(* Python's == holds.  A coefficient inside the arithmetic is a natural    *)
(* number: the sequence of its decimal digits, least significant first,    *)
(* the empty sequence for zero.                                            *)
(***************************************************************************)
\* decimal.getcontext().prec
PREC == 28

Reverse(s) == [k \in 1..Len(s) |-> s[Len(s) + 1 - k]]

Min(a, b) == IF a <= b THEN a ELSE b

Max(a, b) == IF a >= b THEN a ELSE b

\* the exception two steps raise, the second taken only when the first has
\* raised none: a and b are names of exceptions, or "none"
Raised(a, b) == IF a # "none" THEN a ELSE b

\* the default context: the exponent limits, and the exponents of the
\* lowest digit of the largest and of the smallest number
Emax == 999999

Emin == -999999

Etop == Emax - PREC + 1

Etiny == Emin - PREC + 1

\* the natural number of a non-negative integer
RECURSIVE NatOf(_)
NatOf(n) == IF n = 0 THEN <<>> ELSE <<n % 10>> \o NatOf(n \div 10)

\* without zero digits at the high end
NatTrim(a) ==
    SubSeq(a, 1, CHOOSE n \in 0..Len(a) :
                     /\ n = 0 \/ a[n] # 0
                     /\ \A j \in (n + 1)..Len(a) : a[j] = 0)

\* a * 10^k
NatShift(a, k) == IF a = <<>> THEN a ELSE [i \in 1..k |-> 0] \o a

\* a number t < 100 as <<its digit, its carry>>
NatDigitAndCarry(t) == <<<<t % 10>>, t \div 10>>

\* the digits lo..hi of a + b, given the carry c into the digit lo:
\* <<digits, carry out>>
RECURSIVE NatAddRange(_, _, _, _, _)
NatAddRange(a, b, lo, hi, c) ==
    IF lo = hi
    THEN NatDigitAndCarry((IF lo <= Len(a) THEN a[lo] ELSE 0)
                          + (IF lo <= Len(b) THEN b[lo] ELSE 0) + c)
    ELSE LET l == NatAddRange(a, b, lo, (lo + hi) \div 2, c)
             h == NatAddRange(a, b, (lo + hi) \div 2 + 1, hi, l[2])
         IN  <<l[1] \o h[1], h[2]>>

\* the digits and the last carry as one natural number
NatCarried(r) == IF r[2] = 0 THEN r[1] ELSE Append(r[1], r[2])

NatAdd(a, b) ==
    IF a = <<>> THEN b
    ELSE IF b = <<>> THEN a
    ELSE NatCarried(NatAddRange(a, b, 1,
                                IF Len(a) >= Len(b) THEN Len(a) ELSE Len(b),
                                0))

\* a number -10 <= t < 10 as <<its digit, its borrow>>
NatDigitAndBorrow(t) == IF t < 0 THEN <<<<t + 10>>, 1>> ELSE <<<<t>>, 0>>

\* the digits lo..hi of a - b, given the borrow c from the digit lo:
\* <<digits, borrow out>>
RECURSIVE NatSubRange(_, _, _, _, _)
NatSubRange(a, b, lo, hi, c) ==
    IF lo = hi
    THEN NatDigitAndBorrow(a[lo] - (IF lo <= Len(b) THEN b[lo] ELSE 0) - c)
    ELSE LET l == NatSubRange(a, b, lo, (lo + hi) \div 2, c)
             h == NatSubRange(a, b, (lo + hi) \div 2 + 1, hi, l[2])
         IN  <<l[1] \o h[1], h[2]>>

\* a - b, for a >= b
NatSub(a, b) ==
    IF b = <<>> THEN a ELSE NatTrim(NatSubRange(a, b, 1, Len(a), 0)[1])

\* a < b
NatLess(a, b) ==
    \/ Len(a) < Len(b)
    \/ /\ Len(a) = Len(b)
       /\ \E k \in 1..Len(a) :
             /\ a[k] < b[k]
             /\ \A j \in (k + 1)..Len(a) : a[j] = b[j]

\* the digits lo..hi of a * d, d a digit, given the carry c into the digit
\* lo: <<digits, carry out>>
RECURSIVE NatMulDigitRange(_, _, _, _, _)
NatMulDigitRange(a, d, lo, hi, c) ==
    IF lo = hi
    THEN NatDigitAndCarry(a[lo] * d + c)
    ELSE LET l == NatMulDigitRange(a, d, lo, (lo + hi) \div 2, c)
             h == NatMulDigitRange(a, d, (lo + hi) \div 2 + 1, hi, l[2])
         IN  <<l[1] \o h[1], h[2]>>

\* a times the number of the digits lo..hi of b, for a # 0
RECURSIVE NatMulRange(_, _, _, _)
NatMulRange(a, b, lo, hi) ==
    IF lo = hi
    THEN IF b[lo] = 0 THEN <<>>
         ELSE NatCarried(NatMulDigitRange(a, b[lo], 1, Len(a), 0))
    ELSE NatAdd(NatMulRange(a, b, lo, (lo + hi) \div 2),
                NatShift(NatMulRange(a, b, (lo + hi) \div 2 + 1, hi),
                         (lo + hi) \div 2 + 1 - lo))

NatMul(a, b) ==
    IF a = <<>> \/ b = <<>> THEN <<>> ELSE NatMulRange(a, b, 1, Len(b))

\* <<q + n, r - n * b>> for the largest n with n * b <= r
RECURSIVE NatCountSub(_, _, _)
NatCountSub(r, b, q) ==
    IF NatLess(r, b) THEN <<q, r>> ELSE NatCountSub(NatSub(r, b), b, q + 1)

\* long division by b # 0 of the digits hi, ..., lo of a, given the
\* remainder r left by the digits above them:
\* <<quotient digits, the most significant first, remainder>>
RECURSIVE NatDivRange(_, _, _, _, _)
NatDivRange(a, b, lo, hi, r) ==
    IF lo = hi
    THEN LET s == NatCountSub(NatTrim(<<a[lo]>> \o r), b, 0)
         IN  <<<<s[1]>>, s[2]>>
    ELSE LET h == NatDivRange(a, b, (lo + hi) \div 2 + 1, hi, r)
             l == NatDivRange(a, b, lo, (lo + hi) \div 2, h[2])
         IN  <<h[1] \o l[1], l[2]>>

Zero == [sign |-> 0, digits |-> <<0>>, exponent |-> 0]

\* the decimal (-1)^sign * c * 10^exponent in normal form, for a
\* coefficient c # 0 that has z zero digits at its low end
Stripped(sign, c, exponent, z) ==
    [sign |-> sign,
     digits |-> [k \in 1..(Len(c) - z) |-> c[Len(c) + 1 - k]],
     exponent |-> exponent + z]

\* the decimal (-1)^sign * c * 10^exponent in normal form
Normal(sign, c, exponent) ==
    IF c = <<>> THEN Zero
    ELSE Stripped(sign, c, exponent,
                  CHOOSE z \in 0..(Len(c) - 1) :
                      /\ c[z + 1] # 0
                      /\ \A j \in 1..z : c[j] = 0)

\* Context._round, ROUND_HALF_EVEN: is the coefficient c, cut above its k
\* lowest digits, rounded up?  With no digit left above, a half is
\* rounded down
RoundsUp(c, k) ==
    \/ c[k] > 5
    \/ /\ c[k] = 5
       /\ \/ \E i \in 1..(k - 1) : c[i] # 0
          \/ k < Len(c) /\ c[k + 1] % 2 = 1

\* Decimal._fix: the exponent of the lowest digit that is kept of
\* c * 10^exponent: PREC digits are kept, and no digit below Etiny
FixExp(c, exponent) == Max(Len(c) + exponent - PREC, Etiny)

\* Decimal._fix: the coefficient c cut above its k <= Len(c) lowest
\* digits and rounded
Fixed(c, k) ==
    NatAdd(SubSeq(c, k + 1, Len(c)), IF RoundsUp(c, k) THEN <<1>> ELSE <<>>)

\* Decimal._fix raises Overflow: the number lies above Emax, or rounding
\* carries it there
FixOverflows(c, exponent) ==
    /\ c # <<>>
    /\ \/ Len(c) + exponent - PREC > Etop
       \/ /\ exponent < FixExp(c, exponent)
          /\ FixExp(c, exponent) - exponent <= Len(c)
          /\ Len(Fixed(c, FixExp(c, exponent) - exponent)) > PREC
          /\ FixExp(c, exponent) + 1 > Etop

\* Decimal._fix: the decimal nearest to (-1)^sign * c * 10^exponent that
\* has PREC digits and no digit below Etiny, or "Overflow" when _fix
\* raises it
Rounded(sign, c, exponent) ==
    IF FixOverflows(c, exponent) THEN "Overflow"
    ELSE IF c = <<>> \/ exponent >= FixExp(c, exponent)
    THEN Normal(sign, c, exponent)
    ELSE IF FixExp(c, exponent) - exponent > Len(c) THEN Zero
    ELSE Normal(sign, Fixed(c, FixExp(c, exponent) - exponent),
                FixExp(c, exponent))

\* the coefficient of a decimal
Coefficient(x) == IF x.digits = <<0>> THEN <<>> ELSE Reverse(x.digits)

\* the coefficient of x * 10^(-e), for e <= x.exponent
Scaled(x, e) == NatShift(Coefficient(x), x.exponent - e)

\* Decimal(n).scaleb(e) of an integer n: Dec(15, -1) is Decimal("1.5")
Dec(n, e) == Normal(IF n < 0 THEN 1 ELSE 0, NatOf(IF n < 0 THEN -n ELSE n), e)

One == Dec(1, 0)

\* Decimal.copy_negate, by which Decimal.__sub__ changes the sign of its
\* subtrahend: every digit is kept
copy_negate(x) == IF x = Zero THEN x ELSE [x EXCEPT !.sign = 1 - @]

\* the coefficient of (-1)^sx * a + (-1)^sy * b
SumCoefficient(sx, a, sy, b) ==
    IF sx = sy THEN NatAdd(a, b)
    ELSE IF NatLess(a, b) THEN NatSub(b, a) ELSE NatSub(a, b)

\* (-1)^sx * a * 10^e + (-1)^sy * b * 10^e
SignedSum(sx, a, sy, b, e) ==
    Rounded(IF sx # sy /\ NatLess(a, b) THEN sy ELSE sx,
            SumCoefficient(sx, a, sy, b), e)

\* the sum of two decimals, rounded
AlignedSum(x, y) ==
    SignedSum(x.sign, Scaled(x, Min(x.exponent, y.exponent)),
              y.sign, Scaled(y, Min(x.exponent, y.exponent)),
              Min(x.exponent, y.exponent))

\* Decimal._normalize: the exponent below which a digit cannot change the
\* rounded sum of t and a number of lower exponent
NormExp(t) == t.exponent + Min(-1, Len(t.digits) - PREC - 2)

\* Decimal._normalize: an operand o that lies below NormExp(t) as a whole
\* is replaced by one unit of that exponent
Squeezed(o, t) ==
    IF Len(o.digits) + o.exponent - 1 < NormExp(t)
    THEN [sign |-> o.sign, digits |-> <<1>>, exponent |-> NormExp(t)]
    ELSE o

\* the sum of two decimals overflows when it is rounded
AlignedSumOverflows(x, y) ==
    FixOverflows(SumCoefficient(x.sign,
                                Scaled(x, Min(x.exponent, y.exponent)),
                                y.sign,
                                Scaled(y, Min(x.exponent, y.exponent))),
                 Min(x.exponent, y.exponent))

\* Decimal.__add__: the exception x + y raises, or "none"; Overflow is
\* trapped in the default context
QAddRaises(x, y) ==
    IF (IF x = Zero THEN FixOverflows(Coefficient(y), y.exponent)
        ELSE IF y = Zero THEN FixOverflows(Coefficient(x), x.exponent)
        ELSE IF x.exponent < y.exponent
        THEN AlignedSumOverflows(Squeezed(x, y), y)
        ELSE AlignedSumOverflows(x, Squeezed(y, x)))
    THEN "Overflow" ELSE "none"

\* Decimal.__add__: the value is "Overflow" when the sum raises it
QAdd(x, y) ==
    IF x = Zero THEN Rounded(y.sign, Coefficient(y), y.exponent)
    ELSE IF y = Zero THEN Rounded(x.sign, Coefficient(x), x.exponent)
    ELSE IF x.exponent < y.exponent THEN AlignedSum(Squeezed(x, y), y)
    ELSE AlignedSum(x, Squeezed(y, x))

\* Decimal.__sub__: the exception x - y raises, or "none"
QSubRaises(x, y) == QAddRaises(x, copy_negate(y))

\* Decimal.__sub__
QSub(x, y) == QAdd(x, copy_negate(y))

\* Decimal.__mul__: the exception x * y raises, or "none"
QMulRaises(x, y) ==
    IF FixOverflows(NatMul(Coefficient(x), Coefficient(y)),
                    x.exponent + y.exponent)
    THEN "Overflow" ELSE "none"

\* Decimal.__mul__: the value is "Overflow" when the product raises it
QMul(x, y) ==
    Rounded((x.sign + y.sign) % 2, NatMul(Coefficient(x), Coefficient(y)),
            x.exponent + y.exponent)

\* the quotient of a * 10^s by b, with one more digit at the low end that
\* tells whether the division left a remainder
Quotient(d) == <<IF d[2] = <<>> THEN 0 ELSE 1>> \o NatTrim(Reverse(d[1]))

\* Decimal.__truediv__: the power of ten the dividend is multiplied by, or,
\* when negative, the divisor is multiplied by its inverse
DivShift(x, y) == PREC + 1 + Len(y.digits) - Len(x.digits)

\* Decimal.__truediv__: the coefficient of the quotient of x by y, both
\* other than zero, computed to more than PREC digits
DivCoefficient(x, y) ==
    Quotient(IF DivShift(x, y) >= 0
             THEN NatDivRange(NatShift(Coefficient(x), DivShift(x, y)),
                              Coefficient(y), 1, PREC + 1 + Len(y.digits),
                              <<>>)
             ELSE NatDivRange(Coefficient(x),
                              NatShift(Coefficient(y), -DivShift(x, y)),
                              1, Len(x.digits), <<>>))

\* Decimal.__truediv__: the exponent of DivCoefficient(x, y)
DivExp(x, y) == x.exponent - y.exponent - DivShift(x, y) - 1

\* Decimal.__truediv__: the exception x / y raises, or "none"; a zero
\* divisor raises DivisionByZero, or InvalidOperation for 0 / 0, and a
\* quotient that is rounded above Emax raises Overflow
QDivRaises(x, y) ==
    IF y = Zero
    THEN IF x = Zero THEN "InvalidOperation" ELSE "DivisionByZero"
    ELSE IF x # Zero /\ FixOverflows(DivCoefficient(x, y), DivExp(x, y))
    THEN "Overflow"
    ELSE "none"

\* Decimal.__truediv__: the quotient is computed to more than PREC digits
\* and rounded; the value is the exception's name when the division raises
QDiv(x, y) ==
    IF y = Zero
    THEN IF x = Zero THEN "InvalidOperation" ELSE "DivisionByZero"
    ELSE IF x = Zero THEN Zero
    ELSE Rounded((x.sign + y.sign) % 2, DivCoefficient(x, y), DivExp(x, y))

\* Decimal.adjusted: the exponent of the highest digit
Adjusted(x) == x.exponent + Len(x.digits) - 1

\* Decimal._cmp, for x and y other than zero: |x| < |y|
LessInMagnitude(x, y) ==
    IF Adjusted(x) # Adjusted(y) THEN Adjusted(x) < Adjusted(y)
    ELSE NatLess(Scaled(x, Min(x.exponent, y.exponent)),
                 Scaled(y, Min(x.exponent, y.exponent)))

\* Decimal._cmp: x < y
QLt(x, y) ==
    IF x = Zero THEN y # Zero /\ y.sign = 0
    ELSE IF y = Zero THEN x.sign = 1
    ELSE IF x.sign # y.sign THEN x.sign = 1
    ELSE IF x.sign = 0 THEN LessInMagnitude(x, y)
    ELSE LessInMagnitude(y, x)

\* Decimal.__le__
QLe(x, y) == ~QLt(y, x)

\* misc.dsum: sum() of the decimals of s, from the left; dsumTo is the sum
\* of the first k of them
RECURSIVE dsumTo(_, _)
dsumTo(s, k) == IF k = 0 THEN Zero ELSE QAdd(dsumTo(s, k - 1), s[k])

dsum(s) == dsumTo(s, Len(s))

\* misc.dsum: the exception the k-th addition of the sum of s raises, or
\* "none"
dsum_step_raises(s, k) == QAddRaises(dsumTo(s, k - 1), s[k])

\* misc.dsum: the exception the sum of s raises from its k-th addition on,
\* or "none"
RECURSIVE dsumRaisesFrom(_, _)
dsumRaisesFrom(s, k) ==
    IF k > Len(s) THEN "none"
    ELSE Raised(dsum_step_raises(s, k), dsumRaisesFrom(s, k + 1))

(***************************************************************************)
(* config and the tax period.  Times are small integers: 0 and below lie   *)
(* in the year before the tax year, 1..END_OF_YEAR in the tax year, and    *)
(* everything later in the year after it.                                  *)
(***************************************************************************)
FIAT == "EUR"

TAX_YEAR == 2021

\* lines 40-42: datetime(config.TAX_YEAR, 12, 31, 23, 59, 59), the last
\* moment of the tax year
END_OF_YEAR == 12

\* lines 38-43: min(now, end of year), fixed when the module is imported
TAX_DEADLINE == IF now < END_OF_YEAR THEN now ELSE END_OF_YEAR

year(t) == IF t <= 0 THEN TAX_YEAR - 1
           ELSE IF t <= END_OF_YEAR THEN TAX_YEAR
           ELSE TAX_YEAR + 1

in_tax_year(op) == year(op.utc_time) = TAX_YEAR

\* config.IS_LONG_TERM: held for more than a year (a year lasts
\* END_OF_YEAR units of time)
IS_LONG_TERM(buy, sell) == buy + END_OF_YEAR < sell

(***************************************************************************)
(* transaction.py (from the specification, section 3): an Operation is     *)
(* [kind, platform, coin, change, utc_time, fees, link]; a Fee is          *)
(* [coin, change], paid on the platform and at the time of its operation;  *)
(* link is the book index of the paired Withdrawal, or 0.  A SoldCoin      *)
(* (Consumed-Lot) is [op, sold], op a book index.                          *)
(***************************************************************************)
Op(kind, platform, coin, change, t, fees, link) ==
    [kind |-> kind, platform |-> platform, coin |-> coin, change |-> change,
     utc_time |-> t, fees |-> fees, link |-> link]

Fee(coin, change) == [coin |-> coin, change |-> change]

SoldCoin(op, sold) == [op |-> op, sold |-> sold]

\* SoldCoin.partial / Withdrawal.partial_withdrawn_coins: every lot the
\* Withdrawal consumed, pro-rated by percent
partial_withdrawn_coins(wc, percent) ==
    [k \in 1..Len(wc) |-> SoldCoin(wc[k].op, QMul(wc[k].sold, percent))]

\* the exception partial_withdrawn_coins raises, or "none": a pro-rated
\* amount can overflow
partial_withdrawn_coins_raises(wc, percent) ==
    IF \E k \in 1..Len(wc) : QMulRaises(wc[k].sold, percent) # "none"
    THEN "Overflow" ELSE "none"

\* transaction.sort_operations(ops, ["utc_time"]): a stable sort by time,
\* as the sequence of book indices
RECURSIVE InsertSorted(_, _, _)
InsertSorted(b, s, x) ==
    IF s = <<>> THEN <<x>>
    ELSE IF b[Head(s)].utc_time <= b[x].utc_time
         THEN <<Head(s)>> \o InsertSorted(b, Tail(s), x)
         ELSE <<x>> \o s

RECURSIVE SortFrom(_, _, _)
SortFrom(b, k, acc) ==
    IF k > Len(b) THEN acc ELSE SortFrom(b, k + 1, InsertSorted(b, acc, k))

sort_operations(b) == SortFrom(b, 1, <<>>)

(***************************************************************************)
(* price_data.py (from the specification, section 6): the Cost-Basis       *)
(* Lookup.  The fiat currency costs itself; a coin has a price that grows  *)
(* with time; the lookup fails with PriceUnavailable at the points of      *)
(* noPrice.                                                                *)
(***************************************************************************)
get_price(coin, t) ==
    IF coin = FIAT THEN One
    ELSE IF coin = "BTC" THEN Dec(10 + t, 0) ELSE Dec(3 + t, 0)

price_available(np, platform, coin, t) ==
    coin = FIAT \/ <<platform, t>> \notin np

\* get_cost(op) / get_cost(sc) / get_partial_cost(op, percent), where the
\* price is known
get_cost(coin, t, amount) == QMul(get_price(coin, t), amount)

\* the exception get_cost raises, or "none": the lookup fails with
\* PriceUnavailable, and the product of price and amount can overflow
get_cost_raises(platform, coin, t, amount) ==
    IF ~price_available(noPrice, platform, coin, t) THEN "PriceUnavailable"
    ELSE QMulRaises(get_price(coin, t), amount)

\* the exception get_partial_cost raises, or "none": that of get_cost, or
\* the Overflow of percent * get_cost
get_partial_cost_raises(platform, coin, t, amount, percent) ==
    Raised(get_cost_raises(platform, coin, t, amount),
           QMulRaises(percent, get_cost(coin, t, amount)))

(***************************************************************************)
(* balance_queue.py (from the specification, section 4.1): a Lot Queue is  *)
(* the sequence of its Lots [op, amount], oldest first.                    *)
(***************************************************************************)
Lot(op, amount) == [op |-> op, amount |-> amount]

queue_add(queue, op, change) == Append(queue, Lot(op, change))

queue_total(queue) == dsum([k \in 1..Len(queue) |-> queue[k].amount])

\* the lots in accounting order: FIFO oldest first, LIFO newest first
accounting_order(type, queue) ==
    IF type = "BalanceFIFOQueue" THEN queue ELSE Reverse(queue)

\* consume `amount` from lots given in accounting order:
\* [rest: the lots left (accounting order), sold: the Consumed-Lots]
RECURSIVE consume(_, _)
consume(lots, amount) ==
    IF lots = <<>> \/ ~QLt(Zero, amount)
    THEN [rest |-> lots, sold |-> <<>>]
    ELSE LET lot == Head(lots) IN
         IF QLt(amount, lot.amount)
         THEN [rest |-> <<Lot(lot.op, QSub(lot.amount, amount))>> \o Tail(lots),
               sold |-> <<SoldCoin(lot.op, amount)>>]
         ELSE LET r == consume(Tail(lots), QSub(amount, lot.amount)) IN
              [rest |-> r.rest,
               sold |-> <<SoldCoin(lot.op, lot.amount)>> \o r.sold]

\* the queue and the Consumed-Lots of a removal that consumed r
consumed(type, r) ==
    [queue |-> accounting_order(type, r.rest), sold |-> r.sold,
     err |-> "none"]

\* remove(amount): InsufficientBalance and no change when the queue holds
\* less than amount
queue_remove(type, queue, amount) ==
    IF QLt(queue_total(queue), amount)
    THEN [queue |-> queue, sold |-> <<>>, err |-> "InsufficientBalance"]
    ELSE consumed(type, consume(accounting_order(type, queue), amount))

\* remove_fee(amount): as remove; no Consumed-Lot for a zero amount
queue_remove_fee(type, queue, amount) ==
    queue_remove(type, queue, amount)

\* remove_all(): every lot left, as Consumed-Lots in accounting order
queue_remove_all(type, queue) ==
    LET lots == accounting_order(type, queue) IN
    [queue |-> <<>>,
     sold |-> [k \in 1..Len(lots) |-> SoldCoin(lots[k].op, lots[k].amount)]]

\* sanity_check(): NegativeBalance when a lot has a negative amount
sanity_check(queue) ==
    IF \E k \in 1..Len(queue) : QLt(queue[k].amount, Zero)
    THEN "NegativeBalance" ELSE "none"

(***************************************************************************)
(* Taxman: helper functions for balances (taxman.py, lines 51-109).        *)
(* balances is the dict self._balances as the sequence of its items        *)
(* [key, queue] in insertion order.                                        *)
(***************************************************************************)
\* a variant with the two queue types exchanged
BalanceType_swapped ==
    IF PRINCIPLE = "FIFO" THEN "BalanceLIFOQueue"
    ELSE IF PRINCIPLE = "LIFO" THEN "BalanceFIFOQueue"
    ELSE "NotImplementedError"

\* __init__: the BalanceType of config.PRINCIPLE
BalanceType ==
    IF PRINCIPLE = "FIFO" THEN "BalanceFIFOQueue"
    ELSE IF PRINCIPLE = "LIFO" THEN "BalanceLIFOQueue"
    ELSE "NotImplementedError"

balance_key(platform, coin) ==
    IF MULTI_DEPOT THEN <<platform, coin>> ELSE <<coin>>

key_index(bal, key) ==
    IF \E k \in 1..Len(bal) : bal[k].key = key
    THEN CHOOSE k \in 1..Len(bal) : bal[k].key = key
    ELSE 0

\* balance(platform, coin): the queue of the key, created when missing;
\* here the balances with the key present
balance(bal, platform, coin) ==
    IF key_index(bal, balance_key(platform, coin)) = 0
    THEN Append(bal, [key |-> balance_key(platform, coin), queue |-> <<>>])
    ELSE bal

\* add_to_balance(op), op a book index
add_to_balance(bal, op) ==
    LET o == book[op]
        b1 == balance(bal, o.platform, o.coin)
        k == key_index(b1, balance_key(o.platform, o.coin))
    IN  [b1 EXCEPT ![k].queue = queue_add(@, op, o.change)]

\* lines 103-104: the balances after the queue of the k-th balance returned r
\* from its removal
removed_from(b1, k, r) ==
    [bal |-> [b1 EXCEPT ![k].queue = r.queue], sold |-> r.sold, err |-> r.err]

\* remove_from_balance(op): [bal, sold, err]
remove_from_balance(bal, op) ==
    LET o == book[op]
        b1 == balance(bal, o.platform, o.coin)
        k == key_index(b1, balance_key(o.platform, o.coin))
    IN  removed_from(b1, k, queue_remove(BalanceType, b1[k].queue, o.change))

\* remove_fees_from_balance(fees), fees paid on `platform`, from the n-th
\* fee on: [bal, err]; the first failing removal ends the loop
RECURSIVE remove_fees_from(_, _, _, _)
\* lines 108-109: after the queue of the k-th balance returned r from the
\* removal of the n-th fee
fee_removed_from(b1, k, r, platform, fees, n) ==
    IF r.err # "none"
    THEN [bal |-> [b1 EXCEPT ![k].queue = r.queue], err |-> r.err]
    ELSE remove_fees_from([b1 EXCEPT ![k].queue = r.queue], platform, fees,
                          n + 1)

remove_fees_from(bal, platform, fees, n) ==
    IF n > Len(fees) THEN [bal |-> bal, err |-> "none"]
    ELSE LET b1 == balance(bal, platform, fees[n].coin)
             k == key_index(b1, balance_key(platform, fees[n].coin))
         IN  fee_removed_from(b1, k,
                              queue_remove_fee(BalanceType, b1[k].queue,
                                               fees[n].change),
                              platform, fees, n)

remove_fees_from_balance(bal, platform, fees) ==
    remove_fees_from(bal, platform, fees, 1)

(***************************************************************************)
(* Taxman: the sell evaluation (taxman.py, lines 115-289).  An evaluation  *)
(* state e is [rep, err, calls]: the report list, the exception raised (or *)
(* "none") and the _evaluate_sell calls made, each with its proportion.    *)
(***************************************************************************)
\* _evaluate_fee(fee, percent) of a fee of operation op:
\* <<amount, coin, in fiat>>
_evaluate_fee(op, fee, percent) ==
    <<QMul(fee.change, percent), fee.coin,
      QMul(percent, get_cost(fee.coin, op.utc_time, fee.change))>>

\* lines 120-124: the exception _evaluate_fee raises, or "none"; the product
\* of line 121 is computed before the fee is priced
_evaluate_fee_raises(op, fee, percent) ==
    Raised(QMulRaises(fee.change, percent),
           get_partial_cost_raises(op.platform, fee.coin, op.utc_time,
                                   fee.change, percent))

NoFee == <<Zero, "", Zero>>

\* lines 160-171: the branch taken for a fee list of length n
fee_branch(n) ==
    IF n = 0 THEN "pass"
    ELSE IF n >= 1 THEN "first"
    ELSE IF n >= 2 THEN "second"
    ELSE "raise"

\* lines 153-171: the fees of the report entry, <<first, second>>
fee_breakdown(op, percent) ==
    IF fee_branch(Len(op.fees)) = "first"
    THEN <<_evaluate_fee(op, op.fees[1], percent), NoFee>>
    ELSE IF fee_branch(Len(op.fees)) = "second"
    THEN <<NoFee, _evaluate_fee(op, op.fees[2], percent)>>
    ELSE <<NoFee, NoFee>>

\* lines 160-171: the exception the fee branch raises, or "none"
fee_breakdown_raises(op, percent) ==
    IF fee_branch(Len(op.fees)) = "first"
    THEN _evaluate_fee_raises(op, op.fees[1], percent)
    ELSE IF fee_branch(Len(op.fees)) = "second"
    THEN _evaluate_fee_raises(op, op.fees[2], percent)
    ELSE IF fee_branch(Len(op.fees)) = "raise"
    THEN "UnsupportedFeeStructure"
    ELSE "none"

\* lines 178-180: the first k fees of the acquisition o in fiat, pro-rated
\* by sc_percent
buying_fee_costs(o, sc_percent, k) ==
    [j \in 1..k |->
        QMul(sc_percent,
             get_cost(o.fees[j].coin, o.utc_time, o.fees[j].change))]

\* lines 173-180: the acquisition's fees in fiat, pro-rated
buying_fees(sc) ==
    dsum(buying_fee_costs(book[sc.op], QDiv(sc.sold, book[sc.op].change),
                          Len(book[sc.op].fees)))

\* lines 178-180: the exception the sum raises from the k-th fee on, or
\* "none"; sum() prices a fee and adds it before it prices the next
RECURSIVE buying_fees_raise_from(_, _, _)
buying_fees_raise_from(o, sc_percent, k) ==
    IF k > Len(o.fees) THEN "none"
    ELSE Raised(get_partial_cost_raises(o.platform, o.fees[k].coin,
                                        o.utc_time, o.fees[k].change,
                                        sc_percent),
                Raised(dsum_step_raises(buying_fee_costs(o, sc_percent, k),
                                        k),
                       buying_fees_raise_from(o, sc_percent, k + 1)))

\* lines 173-180: the exception the buying fees raise, or "none"
buying_fees_raises(sc) ==
    IF Len(book[sc.op].fees) = 0 THEN "none"
    ELSE IF QLt(book[sc.op].change, sc.sold) THEN "AssertionError"
    ELSE Raised(QDivRaises(sc.sold, book[sc.op].change),
                buying_fees_raise_from(book[sc.op],
                                       QDiv(sc.sold, book[sc.op].change),
                                       1))

\* line 183: get_cost(sc) + buying_fees + additional_fee
buy_value_in_fiat(sc, additional_fee) ==
    QAdd(QAdd(get_cost(book[sc.op].coin, book[sc.op].utc_time, sc.sold),
              buying_fees(sc)),
         additional_fee)

\* line 183: the exception the two additions raise, or "none", for the
\* acquisition value cost and the buying fees fees
buy_value_sum_raises(cost, fees, additional_fee) ==
    Raised(QAddRaises(cost, fees),
           QAddRaises(QAdd(cost, fees), additional_fee))

\* line 183: the exception the acquisition value raises, or "none"
buy_value_raises(sc, additional_fee) ==
    Raised(get_cost_raises(book[sc.op].platform, book[sc.op].coin,
                           book[sc.op].utc_time, sc.sold),
           buy_value_sum_raises(get_cost(book[sc.op].coin,
                                         book[sc.op].utc_time, sc.sold),
                                buying_fees(sc), additional_fee))

\* lines 188-206: the exception the disposal value raises, or "none"; a
\* missing price is forgiven to an unrealized sell
sell_value_raises(op, percent, ReportType) ==
    IF ~price_available(noPrice, op.platform, op.coin, op.utc_time)
    THEN IF ReportType # "UnrealizedSellReportEntry"
         THEN "PriceUnavailable" ELSE "none"
    ELSE get_partial_cost_raises(op.platform, op.coin, op.utc_time,
                                 op.change, percent)

\* the first exception _evaluate_sell raises before it builds the entry,
\* in the order of its statements, or "none"
evaluate_sell_raises(op, sc, additional_fee, ReportType) ==
    IF op.coin # book[sc.op].coin THEN "AssertionError"
    ELSE Raised(QDivRaises(sc.sold, op.change),
         Raised(fee_breakdown_raises(op, QDiv(sc.sold, op.change)),
         Raised(buying_fees_raises(sc),
         Raised(buy_value_raises(sc, additional_fee),
                sell_value_raises(op, QDiv(sc.sold, op.change),
                                  ReportType)))))

\* a variant that values every disposal at the price of the model
sell_value_always_priced(op, percent) ==
    QMul(percent, get_cost(op.coin, op.utc_time, op.change))

\* lines 188-206: the disposal value, zero for an unrealized sell without
\* a price
sell_value_in_fiat(op, percent) ==
    IF price_available(noPrice, op.platform, op.coin, op.utc_time)
    THEN QMul(percent, get_cost(op.coin, op.utc_time, op.change))
    ELSE Zero

\* lines 208-226: the report entry, for the proportion percent and the
\* fees <<first, second>> of lines 153-171
sell_report_entry_with(op, sc, additional_fee, ReportType, percent, fees) ==
    [type |-> ReportType,
     sell_platform |-> op.platform,
     buy_platform |-> book[sc.op].platform,
     amount |-> sc.sold,
     coin |-> op.coin,
     sell_utc_time |-> op.utc_time,
     buy_utc_time |-> book[sc.op].utc_time,
     first_fee_amount |-> fees[1][1],
     first_fee_coin |-> fees[1][2],
     first_fee_in_fiat |-> fees[1][3],
     second_fee_amount |-> fees[2][1],
     second_fee_coin |-> fees[2][2],
     second_fee_in_fiat |-> fees[2][3],
     sell_value_in_fiat |-> sell_value_in_fiat(op, percent),
     buy_value_in_fiat |-> buy_value_in_fiat(sc, additional_fee),
     is_taxable |-> ~IS_LONG_TERM(book[sc.op].utc_time, op.utc_time),
     taxation_type |-> "Sonstige Einkuenfte"]

\* lines 151-226: the report entry
sell_report_entry(op, sc, additional_fee, ReportType) ==
    sell_report_entry_with(op, sc, additional_fee, ReportType,
                           QDiv(sc.sold, op.change),
                           fee_breakdown(op, QDiv(sc.sold, op.change)))

\* lines 146-228 when the statements before the append raised `raised`: an
\* exception leaves the report as it was; percent is the quotient of line
\* 151, or the name of the exception the division raised
sell_evaluated(e, op, sc, additional_fee, ReportType, raised) ==
    [e EXCEPT
       !.err = raised,
       !.rep = IF raised # "none" THEN @
               ELSE Append(@, sell_report_entry(op, sc, additional_fee,
                                                ReportType)),
       !.calls = Append(@, [sc |-> sc, percent |-> QDiv(sc.sold, op.change),
                            type |-> ReportType, raised |-> raised])]

\* _evaluate_sell(op, sc, additional_fee, ReportType)
_evaluate_sell(e, op, sc, additional_fee, ReportType) ==
    IF e.err # "none" THEN e
    ELSE sell_evaluated(e, op, sc, additional_fee, ReportType,
                        evaluate_sell_raises(op, sc, additional_fee,
                                             ReportType))

\* lines 249-274: the loop over the lots of the linked Withdrawal
\* (link is the Withdrawal); line 250 divides by link.change and line 251
\* multiplies by the quotient before the lot is evaluated; the product is
\* used for a warning only, and wsc_fee_in_fiat stays Decimal()
RECURSIVE evaluate_withdrawn(_, _, _, _, _, _)
evaluate_withdrawn(e, op, link, wscs, n, sold_deposit_fee) ==
    IF n > Len(wscs) \/ e.err # "none" THEN e
    ELSE IF QDivRaises(wscs[n].sold, link.change) # "none"
    THEN [e EXCEPT !.err = QDivRaises(wscs[n].sold, link.change)]
    ELSE IF QMulRaises(sold_deposit_fee,
                       QDiv(wscs[n].sold, link.change)) # "none"
    THEN [e EXCEPT !.err = "Overflow"]
    ELSE evaluate_withdrawn(
             _evaluate_sell(e, op, wscs[n], Zero, "SellReportEntry"),
             op, link, wscs, n + 1, sold_deposit_fee)

\* a variant that evaluates a linked Deposit like any other lot
evaluate_sold_coin_unlinked(e, wd, op, sc) ==
    _evaluate_sell(e, op, sc, Zero, "SellReportEntry")

\* lines 245-248: the exception raised before the loop over the lots of the
\* linked Withdrawal, for a Consumed-Lot sc of the linked Deposit o, or
\* "none"
linked_deposit_raises(wd, o, sc) ==
    Raised(QSubRaises(book[o.link].change, o.change),
           Raised(QDivRaises(sc.sold, o.change),
                  Raised(QMulRaises(QSub(book[o.link].change, o.change),
                                    QDiv(sc.sold, o.change)),
                         partial_withdrawn_coins_raises(
                             wd[o.link], QDiv(sc.sold, o.change)))))

\* lines 245-274 when the statements before the loop raised `raised`
linked_deposit_evaluated(e, wd, op, o, sc, raised) ==
    IF raised # "none" THEN [e EXCEPT !.err = raised]
    ELSE evaluate_withdrawn(
             e, op, book[o.link],
             partial_withdrawn_coins(wd[o.link], QDiv(sc.sold, o.change)),
             1,
             QMul(QSub(book[o.link].change, o.change),
                  QDiv(sc.sold, o.change)))

\* lines 239-289: one Consumed-Lot of evaluate_sell
evaluate_sold_coin(e, wd, op, sc) ==
    IF book[sc.op].kind = "Deposit" /\ book[sc.op].link # 0
    THEN IF QLt(book[book[sc.op].link].change, book[sc.op].change)
         THEN [e EXCEPT !.err = "AssertionError"]
         ELSE linked_deposit_evaluated(
                  e, wd, op, book[sc.op], sc,
                  linked_deposit_raises(wd, book[sc.op], sc))
    ELSE _evaluate_sell(e, op, sc, Zero, "SellReportEntry")

RECURSIVE evaluate_sold_coins(_, _, _, _, _)
evaluate_sold_coins(e, wd, op, sold_coins, n) ==
    IF n > Len(sold_coins) \/ e.err # "none" THEN e
    ELSE evaluate_sold_coins(evaluate_sold_coin(e, wd, op, sold_coins[n]),
                             wd, op, sold_coins, n + 1)

\* evaluate_sell(op, sold_coins); the sum of line 237 can overflow
evaluate_sell(e, wd, op, sold_coins) ==
    IF op.coin = FIAT \/ ~in_tax_year(op)
    THEN [e EXCEPT !.err = "AssertionError"]
    ELSE IF dsumRaisesFrom([k \in 1..Len(sold_coins) |->
                              sold_coins[k].sold], 1) # "none"
    THEN [e EXCEPT !.err = "Overflow"]
    ELSE IF op.change # dsum([k \in 1..Len(sold_coins) |->
                                sold_coins[k].sold])
    THEN [e EXCEPT !.err = "AssertionError"]
    ELSE evaluate_sold_coins(e, wd, op, sold_coins, 1)

(***************************************************************************)
(* Taxman._evaluate_taxation_GERMANY (taxman.py, lines 291-437).  A        *)
(* handler takes and returns h = [bal, wd, rep, err, sold, calls]: the     *)
(* balances, the withdrawn coins, the report list, the exception raised,   *)
(* the Consumed-Lots of the operation's removal and the _evaluate_sell     *)
(* calls made.                                                             *)
(***************************************************************************)
is_fiat(coin) == coin = FIAT

ALL_AIRDROPS_ARE_GIFTS == TRUE

\* the report entry of an income (interest, airdrop, commission)
income_entry(type, o, taxation_type) ==
    [type |-> type, platform |-> o.platform, amount |-> o.change,
     coin |-> o.coin, utc_time |-> o.utc_time,
     in_fiat |-> get_cost(o.coin, o.utc_time, o.change),
     taxation_type |-> taxation_type]

\* an income entry is appended, unless get_cost raises
append_income(h, type, o, taxation_type) ==
    IF get_cost_raises(o.platform, o.coin, o.utc_time, o.change) # "none"
    THEN [h EXCEPT !.err = get_cost_raises(o.platform, o.coin, o.utc_time,
                                           o.change)]
    ELSE [h EXCEPT !.rep = Append(@, income_entry(type, o, taxation_type))]

\* lines 319-326
evaluate_Buy(h, op) == [h EXCEPT !.bal = add_to_balance(@, op)]

\* lines 337-338: after self.evaluate_sell(op, sold_coins) returned e, with the
\* balances bal and the Consumed-Lots sold of the removals before it
Sell_evaluated(h, bal, sold, e) ==
    [h EXCEPT !.bal = bal, !.sold = sold, !.rep = e.rep, !.err = e.err,
              !.calls = e.calls]

\* lines 335-338: after self.remove_fees_from_balance(op.fees) returned f
Sell_fees_removed(h, o, r, f) ==
    IF f.err # "none"
    THEN [h EXCEPT !.bal = f.bal, !.sold = r.sold, !.err = f.err]
    ELSE IF o.coin # FIAT /\ in_tax_year(o)
    THEN Sell_evaluated(h, f.bal, r.sold,
                        evaluate_sell([rep |-> h.rep, err |-> "none",
                                       calls |-> <<>>], h.wd, o, r.sold))
    ELSE [h EXCEPT !.bal = f.bal, !.sold = r.sold]

\* lines 334-338: after self.remove_from_balance(op) returned r
Sell_removed(h, o, r) ==
    IF r.err # "none" THEN [h EXCEPT !.bal = r.bal, !.err = r.err]
    ELSE Sell_fees_removed(h, o, r,
                           remove_fees_from_balance(r.bal, o.platform,
                                                    o.fees))

\* a variant that skips a sell that is not reported
evaluate_Sell_reported_only(h, op) ==
    IF book[op].coin = FIAT \/ ~in_tax_year(book[op]) THEN h
    ELSE Sell_removed(h, book[op], remove_from_balance(h.bal, op))

\* lines 328-338
evaluate_Sell(h, op) ==
    Sell_removed(h, book[op], remove_from_balance(h.bal, op))

\* lines 340-369
evaluate_Interest(h, op) ==
    LET o == book[op]
        h1 == [h EXCEPT !.bal = add_to_balance(@, op)]
    IN  IF ~in_tax_year(o) THEN h1
        ELSE IF o.kind = "CoinLendInterest"
        THEN IF is_fiat(o.coin)
             THEN append_income(h1, "InterestReportEntry", o,
                                "Einkuenfte aus Kapitalvermoegen")
             ELSE append_income(h1, "LendingInterestReportEntry", o,
                                "Einkuenfte aus sonstigen Leistungen")
        ELSE append_income(h1, "StakingInterestReportEntry", o,
                           "Einkuenfte aus sonstigen Leistungen")

\* lines 371-391
evaluate_Airdrop(h, op) ==
    LET o == book[op]
        h1 == [h EXCEPT !.bal = add_to_balance(@, op)]
    IN  IF ~in_tax_year(o) THEN h1
        ELSE append_income(h1, "AirdropReportEntry", o,
                           IF ALL_AIRDROPS_ARE_GIFTS THEN "Schenkung"
                           ELSE "Einkuenfte aus sonstigen Leistungen")

\* a variant that reports a commission of any year
evaluate_Commission_any_year(h, op) ==
    append_income([h EXCEPT !.bal = add_to_balance(@, op)],
                  "CommissionReportEntry", book[op],
                  "Einkuenfte aus sonstigen Leistungen")

\* lines 393-409
evaluate_Commission(h, op) ==
    LET o == book[op]
        h1 == [h EXCEPT !.bal = add_to_balance(@, op)]
    IN  IF ~in_tax_year(o) THEN h1
        ELSE append_income(h1, "CommissionReportEntry", o,
                           "Einkuenfte aus sonstigen Leistungen")

\* a variant that reports the amount of the Withdrawal as the fee
evaluate_Deposit_whole_fee(h, op) ==
    LET o == book[op]
        h1 == [h EXCEPT !.bal = add_to_balance(@, op)]
    IN  IF o.link = 0 THEN h1
        ELSE IF o.coin # book[o.link].coin
        THEN [h1 EXCEPT !.err = "AssertionError"]
        ELSE IF get_cost_raises(o.platform, o.coin, o.utc_time, o.change)
                # "none"
        THEN [h1 EXCEPT !.err = get_cost_raises(o.platform, o.coin,
                                                o.utc_time, o.change)]
        ELSE [h1 EXCEPT !.rep = Append(@,
                 [type |-> "TransferReportEntry",
                  first_platform |-> o.platform,
                  second_platform |-> book[o.link].platform,
                  amount |-> o.change,
                  coin |-> o.coin,
                  first_utc_time |-> o.utc_time,
                  second_utc_time |-> book[o.link].utc_time,
                  first_fee_amount |-> book[o.link].change,
                  first_fee_coin |-> o.coin,
                  first_fee_in_fiat |->
                      get_cost(o.coin, o.utc_time, o.change),
                  taxation_type |-> "None"])]

\* lines 411-429; the fee of line 424 is computed before the Deposit is
\* priced at line 426
evaluate_Deposit(h, op) ==
    LET o == book[op]
        h1 == [h EXCEPT !.bal = add_to_balance(@, op)]
    IN  IF o.link = 0 THEN h1
        ELSE IF o.coin # book[o.link].coin
        THEN [h1 EXCEPT !.err = "AssertionError"]
        ELSE IF QSubRaises(book[o.link].change, o.change) # "none"
        THEN [h1 EXCEPT !.err = "Overflow"]
        ELSE IF get_cost_raises(o.platform, o.coin, o.utc_time, o.change)
                # "none"
        THEN [h1 EXCEPT !.err = get_cost_raises(o.platform, o.coin,
                                                o.utc_time, o.change)]
        ELSE [h1 EXCEPT !.rep = Append(@,
                 [type |-> "TransferReportEntry",
                  first_platform |-> o.platform,
                  second_platform |-> book[o.link].platform,
                  amount |-> o.change,
                  coin |-> o.coin,
                  first_utc_time |-> o.utc_time,
                  second_utc_time |-> book[o.link].utc_time,
                  first_fee_amount |-> QSub(book[o.link].change, o.change),
                  first_fee_coin |-> o.coin,
                  first_fee_in_fiat |->
                      get_cost(o.coin, o.utc_time, o.change),
                  taxation_type |-> "None"])]

\* after the removal returned r, nothing recorded
Withdrawal_unrecorded(h, r) ==
    IF r.err # "none" THEN [h EXCEPT !.bal = r.bal, !.err = r.err]
    ELSE [h EXCEPT !.bal = r.bal, !.sold = r.sold]

\* a variant that removes the lots and does not record them
evaluate_Withdrawal_unrecorded(h, op) ==
    Withdrawal_unrecorded(h, remove_from_balance(h.bal, op))

\* line 434: after self.remove_from_balance(op) returned r
Withdrawal_removed(h, op, r) ==
    IF r.err # "none" THEN [h EXCEPT !.bal = r.bal, !.err = r.err]
    ELSE [h EXCEPT !.bal = r.bal, !.sold = r.sold,
                   !.wd = [@ EXCEPT ![op] = r.sold]]

\* lines 431-434
evaluate_Withdrawal(h, op) ==
    Withdrawal_removed(h, op, remove_from_balance(h.bal, op))

\* the dispatch on the operation's kind
_evaluate_taxation_GERMANY(h, op) ==
    LET kind == book[op].kind IN
    IF kind \in {"CoinLend", "Staking"} THEN h
    ELSE IF kind \in {"CoinLendEnd", "StakingEnd"} THEN h
    ELSE IF kind = "Buy" THEN evaluate_Buy(h, op)
    ELSE IF kind = "Sell" THEN evaluate_Sell(h, op)
    ELSE IF kind \in {"CoinLendInterest", "StakingInterest"}
         THEN evaluate_Interest(h, op)
    ELSE IF kind = "Airdrop" THEN evaluate_Airdrop(h, op)
    ELSE IF kind = "Commission" THEN evaluate_Commission(h, op)
    ELSE IF kind = "Deposit" THEN evaluate_Deposit(h, op)
    ELSE IF kind = "Withdrawal" THEN evaluate_Withdrawal(h, op)
    ELSE [h EXCEPT !.err = "UnsupportedOperation"]

(***************************************************************************)
(* The inputs: books of operations and configurations.  The amounts of a   *)
(* book are positive (specification, section 3), and a Deposit is linked   *)
(* to a Withdrawal that is dated before it (an internal transfer,          *)
(* section 4.3).                                                           *)
(***************************************************************************)
MaxBuys == 2

MaxSells == 2

MaxFees == 3

MaxHops == 2

MaxIncomes == 2

\* sequences over S of length 1..n
SeqsUpTo(S, n) == UNION {[1..m -> S] : m \in 1..n}

\* a run of taxman.py at the time t; the k-th operation of the book takes
\* place at time k + shift
InputAt(ops, shift, principle, multi_depot, np, t) ==
    [book |-> [k \in 1..Len(ops) |-> [ops[k] EXCEPT !.utc_time = k + shift]],
     PRINCIPLE |-> principle,
     MULTI_DEPOT |-> multi_depot, noPrice |-> np, now |-> t]

\* a run after the tax year has ended
Input(ops, shift, principle, multi_depot, np) ==
    InputAt(ops, shift, principle, multi_depot, np, END_OF_YEAR + 1)

Principles == {"FIFO", "LIFO"}

Whole == {Dec(1, 0), Dec(2, 0)}

\* 1..MaxBuys buys of a coin on a platform
Acquisitions(platform, coin) ==
    SeqsUpTo({Op("Buy", platform, coin, a, 0, <<>>, 0) : a \in Whole}, MaxBuys)

\* Trades: buys of one coin on one platform, then sells of it, with and
\* without a fee paid in the coin sold; the book starts in the tax year or
\* in the year before
TradeInputs ==
    {Input(b \o s, shift, p, TRUE, {}) :
        b \in Acquisitions("A", "BTC"),
        s \in SeqsUpTo({Op("Sell", "A", "BTC", a, 0, f, 0) :
                           a \in {Dec(1, 0), Dec(15, -1)},
                           f \in {<<>>, <<Fee("BTC", Dec(5, -1))>>}},
                       MaxSells),
        shift \in {0, -3}, p \in Principles}

\* Fees: a stock of the coin and of every fee coin, then one sell with
\* 0..MaxFees fees, each in a coin of its own; one fee amount has PREC
\* significant digits, 0.3000000000000000000000000001: half of it has one
\* digit more
FeeCoins == <<"ETH", "BNB", "EUR", "LTC", "XRP">>

FeeCoin(k) == FeeCoins[((k - 1) % Len(FeeCoins)) + 1]

FeeInputs ==
    {Input(b \o [k \in 1..MaxFees |->
                   Op("Buy", "A", FeeCoin(k), Dec(2, 0), 0, <<>>, 0)]
             \o <<Op("Sell", "A", "BTC", a, 0, f, 0)>>, 0, p, TRUE, {}) :
        b \in Acquisitions("A", "BTC"), a \in Whole,
        f \in {[k \in 1..n |-> Fee(FeeCoin(k), c)] :
                  n \in 0..MaxFees,
                  c \in {Dec(5, -1), Dec(1, 0),
                         Normal(0, <<1>> \o [k \in 1..(PREC - 2) |-> 0]
                                      \o <<3>>, -PREC)}},
        p \in Principles}

\* Transfers: buys on the first platform, then 1..MaxHops transfers, each a
\* Withdrawal and the Deposit linked to it on the next platform, then
\* possibly a sell on the last platform
Platforms == <<"A", "B", "C", "D">>

Platform(k) == Platforms[((k - 1) % Len(Platforms)) + 1]

\* the operations of the hops h; the first of them is the n-th of the book
Transfer(h, n) ==
    [k \in 1..(2 * Len(h)) |->
        IF k % 2 = 1
        THEN Op("Withdrawal", Platform((k + 1) \div 2), "BTC",
                h[(k + 1) \div 2][1], 0, <<>>, 0)
        ELSE Op("Deposit", Platform(k \div 2 + 1), "BTC", h[k \div 2][2], 0,
                <<>>, n + k - 2)]

TransferSells(platform) ==
    {<<>>} \cup {<<Op("Sell", platform, "BTC", a, 0, <<>>, 0)>> : a \in Whole}

TransferInputs ==
    UNION {{Input(b \o Transfer(h, Len(b) + 1) \o s, 0, p, m, {}) :
               s \in TransferSells(Platform(Len(h) + 1)), p \in Principles,
               m \in BOOLEAN} :
           b \in Acquisitions("A", "BTC"),
           h \in SeqsUpTo({wd \in Whole \X Whole : QLe(wd[2], wd[1])},
                          MaxHops)}

\* Prices: buys and a sell, with one price missing
PriceInputs ==
    {Input(b \o s, 0, p, TRUE, {<<"A", t>>}) :
        b \in Acquisitions("A", "BTC"), s \in TransferSells("A"),
        t \in {1, 2, 3, END_OF_YEAR}, p \in Principles}

\* Late books: buys that end with the tax year, then at most one sell,
\* which lies after the tax year
LateInputs ==
    {Input(b \o s, END_OF_YEAR - Len(b), p, TRUE, {}) :
        b \in Acquisitions("A", "BTC"), s \in TransferSells("A"),
        p \in Principles}

\* Incomes: 1..MaxIncomes interests, airdrops, commissions and deposits
\* without a link, in a crypto coin or in the fiat currency; the book starts
\* in the tax year or at the end of the year before, and the price of the
\* first moment of the tax year may be missing
IncomeInputs ==
    {Input(s, shift, "FIFO", TRUE, np) :
        s \in SeqsUpTo({Op(kind, "A", coin, One, 0, <<>>, 0) :
                           kind \in {"CoinLendInterest", "StakingInterest",
                                     "Airdrop", "Commission", "Deposit"},
                           coin \in {"BTC", FIAT}},
                       MaxIncomes),
        shift \in {0, -1}, np \in {{}, {<<"A", 1>>}}}

\* Fiat: buys of the fiat currency, then one sell of it, with and without
\* a fee paid in it
FiatInputs ==
    {Input(b \o <<Op("Sell", "A", FIAT, a, 0, f, 0)>>, 0, p, TRUE, {}) :
        b \in Acquisitions("A", FIAT), a \in Whole,
        f \in {<<>>, <<Fee(FIAT, Dec(5, -1))>>}, p \in Principles}

\* Run dates: taxman.py is run before the tax year has ended, on a book
\* that starts in the tax year or in the year before; an operation of the
\* tax year may be dated after the run
RunDateInputs ==
    {InputAt(b \o s, shift, p, TRUE, {}, t) :
        b \in Acquisitions("A", "BTC"), s \in TransferSells("A"),
        shift \in {0, -3}, p \in Principles, t \in {1, 10}}

\* Long amounts: an amount of PREC + 1 significant digits,
\* 1.0000000000000000000000000001, is bought and left to the liquidation,
\* or is sold from a buy of 2
LongAmount ==
    Normal(0, <<1>> \o [k \in 1..(PREC - 1) |-> 0] \o <<1>>, -PREC)

LongInputs ==
    {Input(b, 0, p, TRUE, {}) :
        b \in {<<Op("Buy", "A", "BTC", LongAmount, 0, <<>>, 0)>>,
               <<Op("Buy", "A", "BTC", Dec(2, 0), 0, <<>>, 0),
                 Op("Sell", "A", "BTC", LongAmount, 0, <<>>, 0)>>},
        p \in Principles}

\* Amounts next to the exponent limit: a lot of Huge, 9E+999999, whose
\* acquisition value exceeds Emax; a lot of 1E+1000000, which a Decimal can
\* hold and no operation can return; a lot of 5E+999998 whose acquisition
\* value and buying fee together exceed Emax, left to the liquidation or
\* sold; and two incomes in the fiat currency, on one platform or on two,
\* whose sum exceeds Emax
Huge == Normal(0, <<9>>, Emax)

OverflowInputs ==
    {Input(b, 0, p, TRUE, {}) :
        b \in {<<Op("Buy", "A", "BTC", Huge, 0, <<>>, 0)>>,
               <<Op("Buy", "A", "BTC", Normal(0, <<1>>, Emax + 1), 0, <<>>,
                    0)>>,
               <<Op("Buy", "A", "BTC", Normal(0, <<5>>, Emax - 1), 0,
                    <<Fee(FIAT, Huge)>>, 0)>>,
               <<Op("Buy", "A", "BTC", Normal(0, <<5>>, Emax - 1), 0,
                    <<Fee(FIAT, Huge)>>, 0),
                 Op("Sell", "A", "BTC", Normal(0, <<5>>, Emax - 1), 0, <<>>,
                    0)>>,
               <<Op("Commission", "A", FIAT, Huge, 0, <<>>, 0),
                 Op("Commission", "A", FIAT, Huge, 0, <<>>, 0)>>,
               <<Op("Commission", "A", FIAT, Huge, 0, <<>>, 0),
                 Op("Commission", "B", FIAT, Huge, 0, <<>>, 0)>>},
        p \in Principles}

Inputs ==
    TradeInputs \cup FeeInputs \cup TransferInputs \cup PriceInputs
    \cup LateInputs \cup IncomeInputs \cup FiatInputs \cup RunDateInputs
    \cup LongInputs \cup OverflowInputs

(***************************************************************************)
(* Taxman.evaluate_taxation (taxman.py, lines 443-485).                    *)
(***************************************************************************)
\* a variant that sells at the time the lot was acquired
unrealized_sell_at_purchase(sc) ==
    Op("Sell", book[sc.op].platform, book[sc.op].coin, sc.sold,
       book[sc.op].utc_time, <<>>, 0)

\* lines 472-480: the synthetic Sell of a Consumed-Lot at the deadline
unrealized_sell(sc) ==
    Op("Sell", book[sc.op].platform, book[sc.op].coin, sc.sold, TAX_DEADLINE,
       <<>>, 0)

\* line 468: portfolio_at_deadline[platform][coin] += sold; a key that
\* is missing starts from the defaultdict's Decimal()
portfolio_add(pf, platform, coin, sold) ==
    IF <<platform, coin>> \in DOMAIN pf
    THEN [pf EXCEPT ![<<platform, coin>>] = QAdd(@, sold)]
    ELSE pf @@ (<<platform, coin>> :> QAdd(Zero, sold))

\* line 468, the lookup of portfolio_at_deadline[platform][coin]: a key that
\* is missing is created with the defaultdict's Decimal(), and stays when
\* the addition raises
portfolio_looked_up(pf, platform, coin) ==
    IF <<platform, coin>> \in DOMAIN pf THEN pf
    ELSE pf @@ (<<platform, coin>> :> Zero)

\* lines 466-485: the Consumed-Lots of one balance, from the n-th on;
\* d = [pf, e], the portfolio and the evaluation state; the addition of
\* line 468 can overflow
RECURSIVE liquidate_sold_coins(_, _, _)
liquidate_sold_coins(d, sold_coins, n) ==
    IF n > Len(sold_coins) \/ d.e.err # "none" THEN d
    ELSE IF QAddRaises(portfolio_looked_up(
                           d.pf, book[sold_coins[n].op].platform,
                           book[sold_coins[n].op].coin)[
                           <<book[sold_coins[n].op].platform,
                             book[sold_coins[n].op].coin>>],
                       sold_coins[n].sold) # "none"
    THEN [pf |-> portfolio_looked_up(d.pf, book[sold_coins[n].op].platform,
                                     book[sold_coins[n].op].coin),
          e |-> [d.e EXCEPT !.err = "Overflow"]]
    ELSE LET sc == sold_coins[n] IN
         liquidate_sold_coins(
             [pf |-> portfolio_add(d.pf, book[sc.op].platform,
                                   book[sc.op].coin, sc.sold),
              e |-> _evaluate_sell(d.e, unrealized_sell(sc), sc, Zero,
                                   "UnrealizedSellReportEntry")],
             sold_coins, n + 1)

\* the outcome of one balance's liquidation: the queue left, the
\* Consumed-Lots taken, and d = [pf, e] after their evaluation
liquidated(queue, sold, d) ==
    [queue |-> queue, sold |-> sold, pf |-> d.pf, e |-> d.e]

\* a variant that evaluates the lots of the balance and leaves them in it
liquidate_balance_keeping(queue, pf, rep) ==
    liquidated(queue, queue_remove_all(BalanceType, queue).sold,
               liquidate_sold_coins(
                   [pf |-> pf,
                    e |-> [rep |-> rep, err |-> "none", calls |-> <<>>]],
                   queue_remove_all(BalanceType, queue).sold, 1))

\* lines 462-485 for one balance: [queue, sold, pf, e]
liquidate_balance(queue, pf, rep) ==
    IF sanity_check(queue) # "none"
    THEN [queue |-> queue, sold |-> <<>>, pf |-> pf,
          e |-> [rep |-> rep, err |-> sanity_check(queue), calls |-> <<>>]]
    ELSE liquidated(queue_remove_all(BalanceType, queue).queue,
                    queue_remove_all(BalanceType, queue).sold,
                    liquidate_sold_coins(
                        [pf |-> pf,
                         e |-> [rep |-> rep, err |-> "none", calls |-> <<>>]],
                        queue_remove_all(BalanceType, queue).sold, 1))

NoStep == [op |-> 0, sold |-> <<>>, calls |-> <<>>, before |-> 0]

\* a variant that looks at the first operation of the book only
first_in_or_before_tax_year(b) ==
    Len(b) > 0 => year(b[1].utc_time) <= TAX_YEAR

\* lines 447-449: all(op.utc_time.year <= TAX_YEAR for op in operations)
all_in_or_before_tax_year(b) ==
    \A k \in 1..Len(b) : year(b[k].utc_time) <= TAX_YEAR

\* lines 447-452: the assertion on the book and the sort
Begin ==
    /\ pc = "start"
    /\ IF ~all_in_or_before_tax_year(book)
       THEN /\ pc' = "failed"
            /\ error' = "PostDeadlineOperation"
            /\ UNCHANGED operations
       ELSE /\ pc' = IF Len(book) = 0 THEN "done" ELSE "loop"
            /\ error' = "none"
            /\ operations' = sort_operations(book)
    /\ pos' = 1
    /\ UNCHANGED <<book, PRINCIPLE, MULTI_DEPOT, noPrice, now, balances,
                   withdrawn_coins, tax_report_entries,
                   portfolio_at_deadline, summary, last>>

\* lines 458-459: one operation of the loop
Evaluate ==
    /\ pc = "loop"
    /\ pos <= Len(operations)
    /\ \E h \in {_evaluate_taxation_GERMANY(
                      [bal |-> balances, wd |-> withdrawn_coins,
                       rep |-> tax_report_entries, err |-> "none",
                       sold |-> <<>>, calls |-> <<>>],
                      operations[pos])} :
           /\ balances' = h.bal
           /\ withdrawn_coins' = h.wd
           /\ tax_report_entries' = h.rep
           /\ error' = h.err
           /\ last' = [op |-> operations[pos], sold |-> h.sold,
                       calls |-> h.calls, before |-> Len(tax_report_entries)]
           /\ pc' = IF h.err # "none" THEN "failed"
                    ELSE IF pos < Len(operations) THEN "loop"
                    ELSE IF Len(h.bal) = 0 THEN "done"
                    ELSE "deadline"
           /\ pos' = IF h.err # "none" THEN pos
                     ELSE IF pos < Len(operations) THEN pos + 1
                     ELSE 1
    /\ UNCHANGED <<book, PRINCIPLE, MULTI_DEPOT, noPrice, now, operations,
                   portfolio_at_deadline, summary>>

\* lines 462-485: one balance of the liquidation at the deadline
Liquidate ==
    /\ pc = "deadline"
    /\ pos <= Len(balances)
    /\ \E r \in {liquidate_balance(balances[pos].queue,
                                    portfolio_at_deadline,
                                    tax_report_entries)} :
           /\ balances' = [balances EXCEPT ![pos].queue = r.queue]
           /\ portfolio_at_deadline' = r.pf
           /\ tax_report_entries' = r.e.rep
           /\ error' = r.e.err
           /\ last' = [op |-> 0, sold |-> r.sold, calls |-> r.e.calls,
                       before |-> Len(tax_report_entries)]
           /\ pc' = IF r.e.err # "none" THEN "failed"
                    ELSE IF pos < Len(balances) THEN "deadline"
                    ELSE "done"
           /\ pos' = IF r.e.err = "none" /\ pos < Len(balances)
                     THEN pos + 1 ELSE pos
    /\ UNCHANGED <<book, PRINCIPLE, MULTI_DEPOT, noPrice, now, operations,
                   withdrawn_coins, summary>>

(***************************************************************************)
(* Taxman.print_evaluation (taxman.py, lines 491-534); the summary sheet   *)
(* of export_evaluation_as_excel (lines 602-612) computes the same totals. *)
(* The gain of a report entry is transaction.TaxReportEntry's: disposal    *)
(* value minus acquisition value minus fees, taxable only when the entry   *)
(* is.                                                                     *)
(***************************************************************************)
SellTypes == {"SellReportEntry", "UnrealizedSellReportEntry"}

gain_in_fiat(e) ==
    IF e.type \in SellTypes
    THEN QSub(QSub(e.sell_value_in_fiat, e.buy_value_in_fiat),
              QAdd(e.first_fee_in_fiat, e.second_fee_in_fiat))
    ELSE IF e.type = "TransferReportEntry"
    THEN QSub(Zero, e.first_fee_in_fiat)
    ELSE e.in_fiat

is_taxable(e) ==
    IF e.type \in SellTypes THEN e.is_taxable
    ELSE e.type # "TransferReportEntry"

taxable_gain_in_fiat(e) == IF is_taxable(e) THEN gain_in_fiat(e) ELSE Zero

\* the exception the gain of an entry raises, or "none"
gain_in_fiat_raises(e) ==
    IF e.type \in SellTypes
    THEN Raised(QSubRaises(e.sell_value_in_fiat, e.buy_value_in_fiat),
         Raised(QAddRaises(e.first_fee_in_fiat, e.second_fee_in_fiat),
                QSubRaises(QSub(e.sell_value_in_fiat, e.buy_value_in_fiat),
                           QAdd(e.first_fee_in_fiat,
                                e.second_fee_in_fiat))))
    ELSE IF e.type = "TransferReportEntry"
    THEN QSubRaises(Zero, e.first_fee_in_fiat)
    ELSE "none"

\* the gains of the first k entries that a total adds: the taxable gains
\* or the gains
gains_to(entries, taxable, k) ==
    [j \in 1..k |->
        IF taxable /\ ~is_taxable(entries[j]) THEN Zero
        ELSE gain_in_fiat(entries[j])]

\* misc.dsum over the gains of entries: the exception raised from the k-th
\* entry on, or "none"; sum() computes a gain and adds it before it
\* computes the next
RECURSIVE gains_raise_from(_, _, _)
gains_raise_from(entries, taxable, k) ==
    IF k > Len(entries) THEN "none"
    ELSE Raised(IF taxable /\ ~is_taxable(entries[k]) THEN "none"
                ELSE gain_in_fiat_raises(entries[k]),
                Raised(dsum_step_raises(gains_to(entries, taxable, k), k),
                       gains_raise_from(entries, taxable, k + 1)))

\* the index of the group of a key, 0 when there is none
group_index(groups, key) ==
    IF \E i \in 1..Len(groups) : groups[i].key = key
    THEN CHOOSE i \in 1..Len(groups) : groups[i].key = key
    ELSE 0

\* misc.group_by(entries, "taxation_type"): the groups in the order their
\* keys first appear, each with its entries in order
RECURSIVE group_by_from(_, _, _)
group_by_from(entries, n, groups) ==
    IF n > Len(entries) THEN groups
    ELSE LET i == group_index(groups, entries[n].taxation_type) IN
         group_by_from(entries, n + 1,
             IF i = 0
             THEN Append(groups, [key |-> entries[n].taxation_type,
                                  entries |-> <<entries[n]>>])
             ELSE [groups EXCEPT ![i].entries = Append(@, entries[n])])

group_by(entries) == group_by_from(entries, 1, <<>>)

\* a variant that adds up every entry of the group
taxable_gain_of_all(entries) ==
    dsum([n \in 1..Len(entries) |-> taxable_gain_in_fiat(entries[n])])

\* lines 502-506: dsum(tre.taxable_gain_in_fiat for tre in entries
\*                     if not isinstance(tre, UnrealizedSellReportEntry))
taxable_gain_of(entries) ==
    dsum([n \in 1..Len(entries) |->
            IF entries[n].type # "UnrealizedSellReportEntry"
            THEN taxable_gain_in_fiat(entries[n]) ELSE Zero])

\* lines 497-507: one row per taxation type that is not None
RECURSIVE summary_rows(_, _)
summary_rows(groups, n) ==
    IF n > Len(groups) THEN <<>>
    ELSE (IF groups[n].key = "None" THEN <<>>
          ELSE <<[taxation_type |-> groups[n].key,
                  taxable_gain |-> taxable_gain_of(groups[n].entries)]>>)
         \o summary_rows(groups, n + 1)

\* lines 509-520: the unrealized entries of the report
unrealized_report_entries(entries) ==
    LET unrealized(e) == e.type = "UnrealizedSellReportEntry"
    IN  SelectSeq(entries, unrealized)

\* lines 497-520: the totals print_evaluation adds up, in the order of its
\* statements, each with the entries it adds and whether it adds their
\* taxable gains: one per group, of the entries that are not unrealized and
\* none for the group None, then the two of the unrealized entries u
printed_totals(groups, u) ==
    LET realized(e) == e.type # "UnrealizedSellReportEntry" IN
    [n \in 1..Len(groups) |->
        [entries |-> IF groups[n].key = "None" THEN <<>>
                     ELSE SelectSeq(groups[n].entries, realized),
         taxable |-> TRUE]]
    \o <<[entries |-> u, taxable |-> FALSE],
          [entries |-> u, taxable |-> TRUE]>>

\* the exception the totals raise from the n-th on, or "none"
RECURSIVE totals_raise_from(_, _)
totals_raise_from(totals, n) ==
    IF n > Len(totals) THEN "none"
    ELSE Raised(gains_raise_from(totals[n].entries, totals[n].taxable, 1),
                totals_raise_from(totals, n + 1))

\* lines 497-520: the exception print_evaluation raises, or "none"
print_evaluation_raises ==
    totals_raise_from(
        printed_totals(group_by(tax_report_entries),
                       unrealized_report_entries(tax_report_entries)),
        1)

NoSummary ==
    [rows |-> <<>>, unrealized_gain |-> Zero, unrealized_taxable_gain |-> Zero]

\* lines 491-534
print_evaluation ==
    /\ pc = "done"
    /\ \E raised \in {print_evaluation_raises} :
       IF raised # "none"
       THEN /\ pc' = "failed"
            /\ error' = raised
            /\ UNCHANGED summary
       ELSE /\ pc' = "printed"
            /\ UNCHANGED error
            /\ \E u \in {unrealized_report_entries(tax_report_entries)} :
                   summary' =
                       [rows |-> summary_rows(group_by(tax_report_entries), 1),
                        unrealized_gain |->
                            dsum([n \in 1..Len(u) |-> gain_in_fiat(u[n])]),
                        unrealized_taxable_gain |->
                            dsum([n \in 1..Len(u) |->
                                    taxable_gain_in_fiat(u[n])])]
    /\ UNCHANGED <<book, PRINCIPLE, MULTI_DEPOT, noPrice, now,
                   operations, pos, balances, withdrawn_coins,
                   tax_report_entries, portfolio_at_deadline, last>>

Next == Begin \/ Evaluate \/ Liquidate \/ print_evaluation


\* Taxman.__init__ (lines 51-81) on a book and a configuration
Init ==
    /\ \E in \in Inputs :
          /\ book = in.book
          /\ PRINCIPLE = in.PRINCIPLE
          /\ MULTI_DEPOT = in.MULTI_DEPOT
          /\ noPrice = in.noPrice
          /\ now = in.now
    /\ pc = "start"
    /\ error = "none"
    /\ operations = <<>>
    /\ pos = 1
    /\ balances = <<>>
    /\ withdrawn_coins = [k \in 1..Len(book) |-> <<>>]
    /\ tax_report_entries = <<>>
    /\ portfolio_at_deadline = <<>>
    /\ summary = NoSummary
    /\ last = NoStep

Spec == Init /\ [][Next]_vars


(***************************************************************************)
(* Properties.                                                             *)
(***************************************************************************)
\* the sum of two decimals with every digit, as the properties add and
\* subtract amounts
ExactSigned(sx, a, sy, b, e) ==
    Normal(IF sx # sy /\ NatLess(a, b) THEN sy ELSE sx,
           IF sx = sy THEN NatAdd(a, b)
           ELSE IF NatLess(a, b) THEN NatSub(b, a) ELSE NatSub(a, b),
           e)

Plus(x, y) ==
    ExactSigned(x.sign, Scaled(x, Min(x.exponent, y.exponent)),
                y.sign, Scaled(y, Min(x.exponent, y.exponent)),
                Min(x.exponent, y.exponent))

Minus(x, y) == Plus(x, copy_negate(y))

RECURSIVE TotalTo(_, _)
TotalTo(s, k) == IF k = 0 THEN Zero ELSE Plus(TotalTo(s, k - 1), s[k])

\* the sum of the decimals of s with every digit
Total(s) == TotalTo(s, Len(s))

\* the report entries appended by the last step
Emitted ==
    SubSeq(tax_report_entries, last.before + 1, Len(tax_report_entries))

\* the last step evaluated a Sell of a non-fiat coin inside the tax period:
\* both removals succeeded and evaluate_sell was entered
RealizedSell ==
    /\ last.op # 0
    /\ book[last.op].kind = "Sell"
    /\ book[last.op].coin # FIAT
    /\ in_tax_year(book[last.op])
    /\ error # "InsufficientBalance"

LinkedDeposit(op) == book[op].kind = "Deposit" /\ book[op].link # 0

\* the entries one Consumed-Lot stands for: the lots recorded on the linked
\* Withdrawal when it is a linked Deposit, itself otherwise
OriginalLots(sc) ==
    IF LinkedDeposit(sc.op) THEN Len(withdrawn_coins[book[sc.op].link]) ELSE 1

RECURSIVE SumNat(_)
SumNat(s) == IF s = <<>> THEN 0 ELSE Head(s) + SumNat(Tail(s))

\* C1 (as amended): a Sell of a non-fiat coin inside the tax period that is
\* evaluated without error appends one report entry per Consumed-Lot that is
\* no linked Deposit, and for a Consumed-Lot that is a linked Deposit one
\* entry per lot recorded on the linked Withdrawal.
C1_EntriesPerOriginalLot ==
    (RealizedSell /\ error = "none") =>
        Len(Emitted) = SumNat([k \in 1..Len(last.sold) |->
                                  OriginalLots(last.sold[k])])

\* C1 as stated: one entry per Consumed-Lot of the Sell, linked Deposits
\* included.
C1_EntriesPerConsumedLot ==
    (RealizedSell /\ error = "none") => Len(Emitted) = Len(last.sold)

\* a Sell consumed a linked Deposit whose Withdrawal had consumed two lots,
\* and another Sell consumed two lots itself
C1_Witness ==
    /\ RealizedSell /\ error = "none"
    /\ Len(last.sold) = 1
    /\ LinkedDeposit(last.sold[1].op)
    /\ Len(withdrawn_coins[book[last.sold[1].op].link]) = 2
    /\ Len(Emitted) = 2


\* the operation whose lot a report entry names as the acquisition: the
\* operation of the book on the entry's buy platform at its buy time
AcquisitionOf(entry) ==
    CHOOSE k \in 1..Len(book) :
        /\ book[k].platform = entry.buy_platform
        /\ book[k].utc_time = entry.buy_utc_time

\* C2: every report entry a Sell emits for a lot created by a linked Deposit
\* names as acquisition a lot withdrawn on the source platform, never a
\* linked Deposit, also when the coins went through a chain of transfers.
C2_AcquisitionIsOriginalLot ==
    (RealizedSell /\ error = "none") =>
        \A k \in 1..Len(Emitted) : ~LinkedDeposit(AcquisitionOf(Emitted[k]))

\* the fatal conditions: every exception but a missing price met while
\* the deadline liquidation evaluates an unrealized sell
FatalCondition ==
    /\ pc = "failed"
    /\ error = "PriceUnavailable" => last.op # 0

\* C3: a run aborted by a fatal condition leaves no entry in the report
\* list and none in the portfolio snapshot.
C3_NoPartialReport ==
    FatalCondition =>
        tax_report_entries = <<>> /\ DOMAIN portfolio_at_deadline = {}

\* the queue of a key in balances bal, empty when the key is missing
QueueOf(bal, key) ==
    IF key_index(bal, key) = 0 THEN <<>> ELSE bal[key_index(bal, key)].queue

\* C4: a Sell or Withdrawal that fails with InsufficientBalance leaves every
\* Lot Queue as it was before the operation (a queue created by the
\* operation is empty).
C4_AtomicFailure ==
    [][(pc = "loop" /\ error' = "InsufficientBalance") =>
          \A k \in 1..Len(balances') :
              balances'[k].queue = QueueOf(balances, balances'[k].key)]_vars

\* the operations evaluated so far, while the loop runs and before the
\* liquidation starts
Processed ==
    IF pc = "loop" THEN SubSeq(operations, 1, pos - 1) ELSE operations

AddingKinds ==
    {"Buy", "CoinLendInterest", "StakingInterest", "Airdrop", "Commission",
     "Deposit"}

\* the amounts the processed operations acquired, disposed of and paid as
\* fees on a balance key
Acquired(key) ==
    Total([k \in 1..Len(Processed) |->
            LET o == book[Processed[k]] IN
            IF o.kind \in AddingKinds /\ balance_key(o.platform, o.coin) = key
            THEN o.change ELSE Zero])

Disposed(key) ==
    Total([k \in 1..Len(Processed) |->
            LET o == book[Processed[k]] IN
            IF o.kind \in {"Sell", "Withdrawal"}
               /\ balance_key(o.platform, o.coin) = key
            THEN o.change ELSE Zero])

FeesConsumed(key) ==
    Total([k \in 1..Len(Processed) |->
            LET o == book[Processed[k]] IN
            IF o.kind = "Sell"
            THEN Total([n \in 1..Len(o.fees) |->
                         IF balance_key(o.platform, o.fees[n].coin) = key
                         THEN o.fees[n].change ELSE Zero])
            ELSE Zero])

\* the remaining amounts of the lots of a queue
RemainingIn(queue) == Total([n \in 1..Len(queue) |-> queue[n].amount])

LotsInOrder ==
    LET o == book[operations[pos]]
        q == QueueOf(balances, balance_key(o.platform, o.coin))
    IN  IF PRINCIPLE = "FIFO" THEN q ELSE Reverse(q)

\* the book starts with buys of 1 and 2 and a sell of 1.5, just evaluated
C6_Example ==
    /\ last.op = 3 /\ error = "none"
    /\ book[1].kind = "Buy" /\ book[1].change = Dec(1, 0)
    /\ book[2].kind = "Buy" /\ book[2].change = Dec(2, 0)
    /\ book[3].kind = "Sell" /\ book[3].change = Dec(15, -1)
    /\ book[3].fees = <<>>

\* C6: a removal consumes the lots in accounting order, oldest first under
\* FIFO and newest first under LIFO; its Consumed-Lots add up to the amount
\* removed and only the last of them may be a part of its lot.  With lots
\* of 1 and 2, removing 1.5 gives 1 of the first and 0.5 of the second
\* under FIFO, and 1.5 of the second under LIFO.
C6_AccountingOrder ==
    /\ [][(pc = "loop" /\ book[operations[pos]].kind \in {"Sell", "Withdrawal"}
           /\ last'.sold # <<>>) =>
             LET sold == last'.sold
                 lots == LotsInOrder
             IN  /\ Len(sold) <= Len(lots)
                 /\ Total([k \in 1..Len(sold) |-> sold[k].sold])
                    = book[operations[pos]].change
                 /\ \A k \in 1..Len(sold) :
                       /\ sold[k].op = lots[k].op
                       /\ QLt(Zero, sold[k].sold)
                       /\ QLe(sold[k].sold, lots[k].amount)
                       /\ k < Len(sold) => sold[k].sold = lots[k].amount]_vars
    /\ [](C6_Example =>
             last.sold = IF PRINCIPLE = "FIFO"
                         THEN <<SoldCoin(1, Dec(1, 0)),
                                SoldCoin(2, Dec(5, -1))>>
                         ELSE <<SoldCoin(2, Dec(15, -1))>>)

C6_Witness == C6_Example /\ PRINCIPLE = "LIFO" /\ Len(last.sold) = 1

\* the last step evaluated a Sell with n fees inside the tax period
SellWithFees(n) == RealizedSell /\ Len(book[last.op].fees) = n

\* C7: a Sell with more than two fees fails with UnsupportedFeeStructure
\* and appends no report entry.
C7_MoreThanTwoFeesFail ==
    (RealizedSell /\ Len(book[last.op].fees) > 2) =>
        error = "UnsupportedFeeStructure" /\ Emitted = <<>>

\* C8: the entries of a Sell with two fees carry both, each at the
\* proportion of the entry: amount = fee.change * p, with the fee's coin and
\* its fiat value at p.
C8_BothFeesReported ==
    (SellWithFees(2) /\ error = "none") =>
        \A k \in 1..Len(Emitted) :
            LET o == book[last.op]
                p == last.calls[k].percent
            IN  /\ Emitted[k].first_fee_amount = QMul(o.fees[1].change, p)
                /\ Emitted[k].first_fee_coin = o.fees[1].coin
                /\ Emitted[k].second_fee_amount = QMul(o.fees[2].change, p)
                /\ Emitted[k].second_fee_coin = o.fees[2].coin
                /\ Emitted[k].second_fee_in_fiat =
                       QMul(p, get_cost(o.fees[2].coin, o.utc_time,
                                        o.fees[2].change))

\* C9: the proportion of every sell evaluation is above 0 and at most 1.
C9_ProportionInUnitInterval ==
    \A k \in 1..Len(last.calls) :
        QLt(Zero, last.calls[k].percent) /\ QLe(last.calls[k].percent, One)

\* C10: when evaluate_taxation completes, every Lot Queue is empty and
\* passes the sanity check.
C10_DrainedAtDone ==
    pc = "done" =>
        \A k \in 1..Len(balances) :
            balances[k].queue = <<>> /\ sanity_check(balances[k].queue) = "none"

\* a run completed that liquidated two balances holding lots
C10_Witness ==
    /\ pc = "done"
    /\ Len(balances) >= 2
    /\ Cardinality(DOMAIN portfolio_at_deadline) >= 2

\* the platforms and coins the book names
BookPlatforms == {book[k].platform : k \in 1..Len(book)}

BookCoins ==
    {book[k].coin : k \in 1..Len(book)}
    \cup UNION {{book[k].fees[n].coin : n \in 1..Len(book[k].fees)} :
                k \in 1..Len(book)}

\* the Portfolio Snapshot entry of a platform and coin
PortfolioOf(pf, platform, coin) ==
    IF <<platform, coin>> \in DOMAIN pf THEN pf[<<platform, coin>>] ELSE Zero

\* the remaining amounts of the lots in the queues that were acquired on
\* the platform in the coin
Remaining(bal, platform, coin) ==
    Total([k \in 1..Len(bal) |->
            Total([n \in 1..Len(bal[k].queue) |->
                    LET o == book[bal[k].queue[n].op] IN
                    IF o.platform = platform /\ o.coin = coin
                    THEN bal[k].queue[n].amount ELSE Zero])])

\* the amounts of a coin the whole stream acquired, disposed of and paid
\* as fees, over all platforms
AcquiredCoin(coin) ==
    Total([k \in 1..Len(operations) |->
            LET o == book[operations[k]] IN
            IF o.kind \in AddingKinds /\ o.coin = coin
            THEN o.change ELSE Zero])

DisposedCoin(coin) ==
    Total([k \in 1..Len(operations) |->
            LET o == book[operations[k]] IN
            IF o.kind \in {"Sell", "Withdrawal"} /\ o.coin = coin
            THEN o.change ELSE Zero])

FeesCoin(coin) ==
    Total([k \in 1..Len(operations) |->
            LET o == book[operations[k]] IN
            IF o.kind = "Sell"
            THEN Total([n \in 1..Len(o.fees) |->
                         IF o.fees[n].coin = coin
                         THEN o.fees[n].change ELSE Zero])
            ELSE Zero])

PortfolioTotal(pf, coin) ==
    Total([k \in 1..Len(Platforms) |-> PortfolioOf(pf, Platforms[k], coin)])

\* C11: the Portfolio Snapshot.  The snapshot is empty when the liquidation
\* starts; every liquidated balance moves the remaining amounts of its lots
\* into the snapshot entry of the lot's platform and coin, so that after a
\* completed run each entry is the sum of the lots that remained when the
\* stream was exhausted; and the total of a coin over all platforms is the
\* amount acquired minus the amounts disposed of and paid as fees (the
\* sorted stream is the same before and after the step that completes the
\* run).
C11_PortfolioSnapshot ==
    [][/\ (pc' = "deadline" /\ pos' = 1) => portfolio_at_deadline' = <<>>
       /\ (pc = "deadline" /\ error' = "none") =>
            \A p \in BookPlatforms, c \in BookCoins :
                Plus(PortfolioOf(portfolio_at_deadline', p, c),
                     Remaining(balances', p, c))
                = Plus(PortfolioOf(portfolio_at_deadline, p, c),
                       Remaining(balances, p, c))
       /\ pc' = "done" =>
            /\ DOMAIN portfolio_at_deadline'
                 \subseteq BookPlatforms \X BookCoins
            /\ \A c \in BookCoins :
                 PortfolioTotal(portfolio_at_deadline', c)
                 = Minus(Minus(AcquiredCoin(c), DisposedCoin(c)),
                         FeesCoin(c))]_vars

\* C12: liquidation at the deadline.  A liquidation step that does not
\* abort appends exactly one report entry for every lot that was in the
\* balance, in accounting order; each is tagged unrealized, has the
\* deadline as disposal timestamp and the lot's remaining amount as
\* amount; the entries the report already held are kept, so liquidation
\* produces no realized Sell entry.
C12_LiquidationEntries ==
    [][(pc = "deadline" /\ error' = "none") =>
          LET lots == accounting_order(BalanceType, balances[pos].queue)
              new == SubSeq(tax_report_entries',
                            Len(tax_report_entries) + 1,
                            Len(tax_report_entries'))
          IN  /\ SubSeq(tax_report_entries', 1, Len(tax_report_entries))
                 = tax_report_entries
              /\ Len(new) = Len(lots)
              /\ \A n \in 1..Len(lots) :
                    /\ new[n].type = "UnrealizedSellReportEntry"
                    /\ new[n].sell_utc_time = TAX_DEADLINE
                    /\ new[n].amount = lots[n].amount
                    /\ new[n].coin = book[lots[n].op].coin
                    /\ new[n].buy_utc_time = book[lots[n].op].utc_time]_vars

\* a balance of two lots with different remaining amounts was liquidated
\* after a realized Sell entry had been reported, in a run before the end
\* of the tax year, whose deadline is the time of the run
C12_Witness ==
    /\ last.op = 0
    /\ error = "none"
    /\ Len(last.sold) = 2
    /\ last.sold[1].sold # last.sold[2].sold
    /\ Len(Emitted) = 2
    /\ now < END_OF_YEAR
    /\ Emitted[1].sell_utc_time = now
    /\ \E n \in 1..last.before :
          tax_report_entries[n].type = "SellReportEntry"

\* the disposal of the k-th evaluation of the last step has no price: a
\* realized Sell is priced on its platform at its time, a liquidated lot
\* on the lot's platform at the deadline
DisposalUnpriced(k) ==
    LET o == book[last.calls[k].sc.op] IN
    IF last.op = 0
    THEN ~price_available(noPrice, o.platform, o.coin, TAX_DEADLINE)
    ELSE ~price_available(noPrice, book[last.op].platform,
                          book[last.op].coin, book[last.op].utc_time)

\* the acquisition of the k-th evaluated Consumed-Lot has a price
AcquisitionPriced(k) ==
    LET o == book[last.calls[k].sc.op] IN
    /\ price_available(noPrice, o.platform, o.coin, o.utc_time)
    /\ \A n \in 1..Len(o.fees) :
          price_available(noPrice, o.platform, o.fees[n].coin, o.utc_time)

\* C13: PriceUnavailable on the disposal value.  When the disposal value
\* of an evaluated Consumed-Lot has no price, an unrealized evaluation
\* (whose acquisition cost is priced) does not raise and appends its entry
\* with disposal value zero, and a realized evaluation raises
\* PriceUnavailable, appends no entry for that Consumed-Lot and ends the
\* run.
C13_DisposalPriceUnavailable ==
    \A k \in 1..Len(last.calls) :
        DisposalUnpriced(k) =>
            IF last.calls[k].type = "UnrealizedSellReportEntry"
            THEN AcquisitionPriced(k) =>
                    /\ last.calls[k].raised = "none"
                    /\ k <= Len(Emitted)
                    /\ Emitted[k].type = "UnrealizedSellReportEntry"
                    /\ Emitted[k].amount = last.calls[k].sc.sold
                    /\ Emitted[k].sell_value_in_fiat = Zero
            ELSE /\ last.calls[k].raised = "PriceUnavailable"
                 /\ k = Len(last.calls)
                 /\ Len(Emitted) = k - 1
                 /\ pc = "failed"
                 /\ error = "PriceUnavailable"

\* a run completed whose liquidation valued two lots of a platform without
\* a price at the deadline, after a realized Sell had been reported
C13_Witness ==
    /\ pc = "done"
    /\ Len(last.calls) = 2
    /\ \A k \in 1..2 : DisposalUnpriced(k) /\ AcquisitionPriced(k)
    /\ Len(Emitted) = 2
    /\ \E n \in 1..last.before :
          tax_report_entries[n].type = "SellReportEntry"

\* C14: operations after the tax period.  When the book holds an operation
\* timestamped after the end of the tax period, the only step of the run
\* fails with PostDeadlineOperation and processes nothing: no Lot Queue
\* exists, no report entry is appended, no operation is sorted in and the
\* Portfolio Snapshot stays empty.
C14_PostDeadlineFails ==
    [][(\E k \in 1..Len(book) : year(book[k].utc_time) > TAX_YEAR) =>
          /\ pc = "start"
          /\ pc' = "failed"
          /\ error' = "PostDeadlineOperation"
          /\ balances' = <<>>
          /\ tax_report_entries' = <<>>
          /\ operations' = <<>>
          /\ portfolio_at_deadline' = <<>>
          /\ withdrawn_coins' = withdrawn_coins]_vars

\* a run failed on a book of three operations whose first two lie in the
\* tax year and whose last lies after it
C14_Witness ==
    /\ pc = "failed"
    /\ error = "PostDeadlineOperation"
    /\ Len(book) = 3
    /\ year(book[2].utc_time) = TAX_YEAR
    /\ year(book[3].utc_time) > TAX_YEAR
    /\ balances = <<>>

\* the last step evaluated an operation of one of the kinds and returned
Evaluated(kinds) ==
    /\ last.op # 0
    /\ book[last.op].kind \in kinds
    /\ error = "none"

\* the newest lot of the balance of the last operation is the operation
\* itself with its whole change
LotAdded ==
    LET o == book[last.op]
        q == QueueOf(balances, balance_key(o.platform, o.coin))
    IN  /\ Len(q) > 0
        /\ q[Len(q)] = Lot(last.op, o.change)

InterestTypes ==
    {"InterestReportEntry", "LendingInterestReportEntry",
     "StakingInterestReportEntry"}

\* C15: an evaluated CoinLendInterest or StakingInterest adds its
\* lot; inside the tax period it appends exactly one interest entry,
\* labelled capital income when the coin is the fiat currency and
\* miscellaneous income otherwise; outside it appends nothing.
C15_InterestLabelByCoin ==
    Evaluated({"CoinLendInterest", "StakingInterest"}) =>
        /\ LotAdded
        /\ IF in_tax_year(book[last.op])
           THEN /\ Len(Emitted) = 1
                /\ Emitted[1].type \in InterestTypes
                /\ Emitted[1].taxation_type
                   = IF is_fiat(book[last.op].coin)
                     THEN "Einkuenfte aus Kapitalvermoegen"
                     ELSE "Einkuenfte aus sonstigen Leistungen"
           ELSE Emitted = <<>>

\* C16 as stated: every evaluated Commission adds its lot and appends one
\* Commission entry labelled miscellaneous income.
C16_CommissionAlwaysReported ==
    Evaluated({"Commission"}) =>
        /\ LotAdded
        /\ Len(Emitted) = 1
        /\ Emitted[1].type = "CommissionReportEntry"
        /\ Emitted[1].taxation_type = "Einkuenfte aus sonstigen Leistungen"

\* C16 amended: every evaluated Commission adds its lot; inside the tax
\* period it appends exactly one Commission entry with the operation's
\* platform, coin, amount and time, labelled miscellaneous income; outside
\* the tax period it appends nothing.
C16_CommissionReportedInTaxYear ==
    Evaluated({"Commission"}) =>
        /\ LotAdded
        /\ IF in_tax_year(book[last.op])
           THEN /\ Len(Emitted) = 1
                /\ Emitted[1].type = "CommissionReportEntry"
                /\ Emitted[1].platform = book[last.op].platform
                /\ Emitted[1].amount = book[last.op].change
                /\ Emitted[1].coin = book[last.op].coin
                /\ Emitted[1].utc_time = book[last.op].utc_time
                /\ Emitted[1].taxation_type
                   = "Einkuenfte aus sonstigen Leistungen"
           ELSE Emitted = <<>>

\* a Commission inside the tax period was evaluated and reported, after a
\* Commission of the year before that added its lot and reported nothing
C16_Witness ==
    /\ Evaluated({"Commission"})
    /\ in_tax_year(book[last.op])
    /\ Len(book) = 2
    /\ book[1].kind = "Commission"
    /\ ~in_tax_year(book[1])
    /\ book[1].coin = book[2].coin
    /\ Len(tax_report_entries) = 1
    /\ Len(QueueOf(balances, balance_key(book[1].platform, book[1].coin))) = 2

\* C17: deposits.  Every evaluated Deposit adds a lot of its whole change;
\* a Deposit linked to a Withdrawal appends exactly one Transfer entry,
\* between the two platforms, whose fee amount is the change of the
\* Withdrawal minus the change of the Deposit; a Deposit without a link
\* appends nothing.
C17_DepositLotAndTransfer ==
    Evaluated({"Deposit"}) =>
        /\ LotAdded
        /\ IF LinkedDeposit(last.op)
           THEN /\ Len(Emitted) = 1
                /\ Emitted[1].type = "TransferReportEntry"
                /\ Emitted[1].first_platform = book[last.op].platform
                /\ Emitted[1].second_platform
                   = book[book[last.op].link].platform
                /\ Emitted[1].amount = book[last.op].change
                /\ QAdd(Emitted[1].first_fee_amount, book[last.op].change)
                   = book[book[last.op].link].change
           ELSE Emitted = <<>>

\* a Deposit linked to a larger Withdrawal was evaluated
C17_Witness ==
    /\ Evaluated({"Deposit"})
    /\ LinkedDeposit(last.op)
    /\ QLt(book[last.op].change, book[book[last.op].link].change)
    /\ Len(Emitted) = 1
    /\ Emitted[1].first_fee_amount # Zero

\* the remaining amount of the lots of an operation in a queue, and the
\* amount of it among Consumed-Lots
AmountIn(queue, op) ==
    dsum([n \in 1..Len(queue) |->
            IF queue[n].op = op THEN queue[n].amount ELSE Zero])

SoldOf(sold_coins, op) ==
    dsum([n \in 1..Len(sold_coins) |->
            IF sold_coins[n].op = op THEN sold_coins[n].sold ELSE Zero])

\* C18: withdrawals.  An evaluated Withdrawal takes lots totalling its
\* change from the balance of its key and from no other balance; the
\* Consumed-Lots recorded on the Withdrawal are exactly what the lots of
\* that balance lost; the records of the other Withdrawals and the report
\* list are unchanged.
C18_WithdrawalFrame ==
    [][(/\ pc = "loop"
        /\ book[operations[pos]].kind = "Withdrawal"
        /\ error' = "none") =>
          LET op == operations[pos]
              key == balance_key(book[op].platform, book[op].coin)
              before == QueueOf(balances, key)
              after == QueueOf(balances', key)
              recorded == withdrawn_coins'[op]
          IN  /\ SoldOf(recorded, op) = Zero
              /\ dsum([n \in 1..Len(recorded) |-> recorded[n].sold])
                 = book[op].change
              /\ QAdd(queue_total(after), book[op].change)
                 = queue_total(before)
              /\ \A x \in 1..Len(book) :
                    AmountIn(before, x)
                    = QAdd(AmountIn(after, x), SoldOf(recorded, x))
              /\ Len(balances') = Len(balances)
              /\ \A k \in 1..Len(balances) :
                    balances[k].key # key => balances'[k] = balances[k]
              /\ \A x \in 1..Len(book) :
                    x # op => withdrawn_coins'[x] = withdrawn_coins[x]
              /\ tax_report_entries' = tax_report_entries]_vars

\* a Withdrawal that took from two lots was evaluated while the report
\* held an entry
C18_Witness ==
    /\ Evaluated({"Withdrawal"})
    /\ Len(withdrawn_coins[last.op]) = 2
    /\ withdrawn_coins[last.op] = last.sold
    /\ Len(tax_report_entries) > 0

\* the taxable gains of the entries of a category that are not unrealized
RealizedTaxable(taxation_type) ==
    dsum([n \in 1..Len(tax_report_entries) |->
            LET e == tax_report_entries[n] IN
            IF e.taxation_type = taxation_type
               /\ e.type # "UnrealizedSellReportEntry"
            THEN taxable_gain_in_fiat(e) ELSE Zero])

\* C19: the totals of the summary.  The summary has one row for every
\* taxation category of the report (entries without a category have none);
\* the taxable total of a row is the sum of the taxable gains of the
\* entries of its category that are not unrealized; the unrealized gain
\* and the unrealized taxable gain are the sums of the gains and taxable
\* gains of exactly the unrealized entries.
C19_SummaryTotals ==
    pc = "printed" =>
        /\ {summary.rows[i].taxation_type : i \in 1..Len(summary.rows)}
           = {tax_report_entries[n].taxation_type :
                 n \in 1..Len(tax_report_entries)} \ {"None"}
        /\ \A i, j \in 1..Len(summary.rows) :
              summary.rows[i].taxation_type = summary.rows[j].taxation_type
                 => i = j
        /\ \A i \in 1..Len(summary.rows) :
              summary.rows[i].taxable_gain
              = RealizedTaxable(summary.rows[i].taxation_type)
        /\ summary.unrealized_gain
           = dsum([n \in 1..Len(tax_report_entries) |->
                     LET e == tax_report_entries[n] IN
                     IF e.type = "UnrealizedSellReportEntry"
                     THEN gain_in_fiat(e) ELSE Zero])
        /\ summary.unrealized_taxable_gain
           = dsum([n \in 1..Len(tax_report_entries) |->
                     LET e == tax_report_entries[n] IN
                     IF e.type = "UnrealizedSellReportEntry"
                     THEN taxable_gain_in_fiat(e) ELSE Zero])

\* a summary of a report that holds, in one category, a realized and an
\* unrealized entry with taxable gains that are not zero
C19_Witness ==
    /\ pc = "printed"
    /\ \E m, n \in 1..Len(tax_report_entries) :
          /\ tax_report_entries[m].type = "SellReportEntry"
          /\ tax_report_entries[n].type = "UnrealizedSellReportEntry"
          /\ tax_report_entries[m].taxation_type
             = tax_report_entries[n].taxation_type
          /\ taxable_gain_in_fiat(tax_report_entries[m]) # Zero
          /\ taxable_gain_in_fiat(tax_report_entries[n]) # Zero
    /\ summary.unrealized_taxable_gain # Zero
    /\ Len(summary.rows) = 1
    /\ summary.rows[1].taxable_gain # Zero

\* the last step evaluated a Sell with one declared fee against lots that
\* are not linked Deposits
SellWithOneFee ==
    /\ RealizedSell
    /\ error = "none"
    /\ Len(book[last.op].fees) = 1
    /\ \A n \in 1..Len(last.sold) : ~LinkedDeposit(last.sold[n].op)

\* C20: fee proration is split-invariant.  A Sell of amount A with one
\* declared fee that is matched against one lot of A, or against two lots
\* of A/2 each, yields one entry per lot, each with the coin of the fee,
\* and in both cases the fee amounts of the entries add up to the declared
\* fee amount.
C20_FeeSplitInvariant ==
    (/\ SellWithOneFee
     /\ \/ Len(last.sold) = 1
        \/ Len(last.sold) = 2 /\ last.sold[1].sold = last.sold[2].sold
     /\ dsum([n \in 1..Len(last.sold) |-> last.sold[n].sold])
        = book[last.op].change) =>
        /\ Len(Emitted) = Len(last.sold)
        /\ \A n \in 1..Len(Emitted) :
              Emitted[n].first_fee_coin = book[last.op].fees[1].coin
        /\ dsum([n \in 1..Len(Emitted) |-> Emitted[n].first_fee_amount])
           = book[last.op].fees[1].change

\* C21: no double counting in realized sells.  The amounts of the report
\* entries a Sell inside the tax period appended add up to the change of
\* the Sell, also when Consumed-Lots are Deposits linked to a larger
\* Withdrawal.
C21_EntryAmountsSumToChange ==
    (RealizedSell /\ error = "none") =>
        dsum([n \in 1..Len(Emitted) |-> Emitted[n].amount])
        = book[last.op].change

\* the place of an operation in the sorted stream
PlaceOf(op) == CHOOSE k \in 1..Len(operations) : operations[k] = op

\* C22: link resolution after the Withdrawal.  When a Sell inside the tax
\* period was evaluated and one of its Consumed-Lots is a Deposit linked to
\* a Withdrawal, that Withdrawal stands before the Sell in the sorted
\* stream and its Consumed-Lots are recorded.
C22_WithdrawalProcessedBeforeSell ==
    (RealizedSell /\ error = "none") =>
        \A n \in 1..Len(last.sold) :
            LinkedDeposit(last.sold[n].op) =>
                /\ PlaceOf(book[last.sold[n].op].link) < PlaceOf(last.op)
                /\ withdrawn_coins[book[last.sold[n].op].link] # <<>>

\* a Sell was evaluated on the third platform of a chain of two transfers:
\* its Consumed-Lot is the second Deposit, whose Withdrawal stands two
\* places before the Sell and has its Consumed-Lots recorded
C22_Witness ==
    /\ RealizedSell
    /\ error = "none"
    /\ book[last.op].platform = "C"
    /\ Len(last.sold) = 1
    /\ LinkedDeposit(last.sold[1].op)
    /\ PlaceOf(book[last.sold[1].op].link) = PlaceOf(last.op) - 2
    /\ withdrawn_coins[book[last.sold[1].op].link] # <<>>

\* what a Sell takes from the balance of a key: its change when it is the
\* key of the coin sold, and every declared fee paid in the key's coin
TakenFrom(o, key) ==
    QAdd(IF balance_key(o.platform, o.coin) = key THEN o.change ELSE Zero,
         dsum([n \in 1..Len(o.fees) |->
                 IF balance_key(o.platform, o.fees[n].coin) = key
                 THEN o.fees[n].change ELSE Zero]))

\* C23: sells that are not reported.  An evaluated Sell of the fiat
\* currency, or of any coin outside the tax period, takes its change and
\* its declared fees from the balances and leaves the report list
\* unchanged.
C23_UnreportedSellFrame ==
    [][(/\ pc = "loop"
        /\ book[operations[pos]].kind = "Sell"
        /\ \/ book[operations[pos]].coin = FIAT
           \/ ~in_tax_year(book[operations[pos]])
        /\ error' = "none") =>
          /\ tax_report_entries' = tax_report_entries
          /\ Len(balances') = Len(balances)
          /\ \A k \in 1..Len(balances) :
                /\ balances'[k].key = balances[k].key
                /\ QAdd(queue_total(balances'[k].queue),
                        TakenFrom(book[operations[pos]], balances[k].key))
                   = queue_total(balances[k].queue)
          /\ dsum([n \in 1..Len(last'.sold) |-> last'.sold[n].sold])
             = book[operations[pos]].change]_vars

\* a Sell of the fiat currency with a fee was evaluated: lots were taken
\* and nothing was reported
C23_Witness ==
    /\ last.op # 0
    /\ book[last.op].kind = "Sell"
    /\ book[last.op].coin = FIAT
    /\ in_tax_year(book[last.op])
    /\ Len(book[last.op].fees) = 1
    /\ error = "none"
    /\ Len(last.sold) = 2
    /\ tax_report_entries = <<>>

\* the coin the evaluations of the last step dispose of: the coin of the
\* Sell, or at the deadline the coin of the liquidated balance
DisposalCoin ==
    IF last.op # 0 THEN book[last.op].coin
    ELSE book[last.sold[1].op].coin

====
